---- MODULE Spec2Model ----
(***************************************************************************)
(* Model of the vector store of services/vectorDatabaseService.js:         *)
(* VectorDatabaseService (createEmbedding, batchInsert, the batch queue    *)
(* with its timer, deleteVector, similaritySearch,                         *)
(* multilingualSimilaritySearch and the two caches).                       *)
(*                                                                         *)
(* JavaScript runs one callback at a time; an async method runs without    *)
(* interruption up to its next await.  Every action below is one such      *)
(* uninterrupted stretch: the call of a method up to its first await, or   *)
(* the continuation after one awaited promise settles.  What the awaited   *)
(* external service answers (OpenAI, HuggingFace, Pinecone) is a           *)
(* nondeterministic choice of the action.                                  *)
(*                                                                         *)
(* Abstractions: a vector is represented by its length (and, for search    *)
(* results, by the score the backend reports); scores and relevances are   *)
(* tenths (0..10 for 0.0..1.0); uuidv4() is a counter; md5 is an injective *)
(* tagging; vectorAnalytics and logging are left out.                      *)
(***************************************************************************)
EXTENDS Integers, Sequences, FiniteSets, TLC

\* ------------------------------------------------------------------ bounds
MaxDocs == 11        \* documents ever passed to addToBatch
MaxIds == 10         \* uuidv4() values ever drawn
MaxTexts == 2        \* distinct texts passed to createEmbedding
MaxInflight == 2     \* createEmbedding calls in progress at once
MaxEmbedCalls == 3   \* createEmbedding calls ever made
MaxSearchCalls == 2  \* similaritySearch calls ever made
MaxSearches == 2     \* similaritySearch calls in progress at once
MaxDeleteCalls == 3  \* deleteVector calls ever made
MaxDeletes == 2      \* deleteVector calls in progress at once
MaxCalls == 3        \* calls ever made in the local-mode specifications
MaxPending == 2      \* calls in progress at once in these specifications
MaxVectors == 3      \* vectors passed to a clustering call
MaxK == 3            \* clusters asked of k-means
MaxPasses == 2       \* maxIterations passed to k-means
MaxWords == 2        \* words of a text passed to the free embedding generator
MaxUpdateTexts == 2  \* texts passed to one updateVocabulary call
MaxDocFreq == 3      \* document count a word reaches in the vocabulary
MaxLiveDocs == 3     \* documents passed to addToBatch in the liveness specification

\* ------------------------------------------------------- program constants
BatchThreshold == 10     \* addToBatch: batchQueue.length >= 10
OpenAIDim == 3072        \* 'text-embedding-3-large'
HFDim == 384             \* paraphrase-multilingual-MiniLM-L12-v2
EmbeddingDim == 300      \* FreeEmbedding: this.embeddingDim = 300
VizMaxIterations == 100  \* VectorVisualizationService: const maxIterations = 100
SemanticCacheBound == 1000   \* similaritySearch: semanticCache.size > 1000
SemanticCacheEvict == 500    \* similaritySearch: for (let i=0;i<500;i++)
PineconeTopKCap == 100       \* similaritySearch: Math.min(topK * 2, 100)

VARIABLES
  index,              \* this.index: TRUE when the Pinecone index is configured
  hf,                 \* this.hf: TRUE when a HuggingFace client is configured
  writeFails,         \* TRUE when writes of the snapshot file may fail in this run
  freeEmbedding,      \* the FreeEmbedding instance: [vocabulary, idf, documentCount]
  localVectors,       \* this.localVectors: Map id -> vectorData, in insertion order
  vectorFile,         \* the snapshot file this.vectorFile: [entries, size, whole]
  pinecone,           \* the records upserted to the remote index
  nextId,             \* number of uuidv4() values drawn so far
  vectorCache,        \* this.vectorCache: Map key -> result, in insertion order
  batchQueue,         \* this.batchQueue
  isProcessingBatch,  \* this.isProcessingBatch
  flights,            \* processBatch calls suspended in their awaited batchInsert
  nextDoc,            \* number of documents passed to addToBatch so far
  embeds,             \* createEmbedding calls suspended at an await
  embedCalls,         \* number of createEmbedding calls made in this run
  semanticCache,      \* this.semanticCache: Map key -> result list, in insertion order
  searches,           \* similaritySearch calls suspended at an await
  searchCalls,        \* number of similaritySearch calls made in this run
  deletes,            \* deleteVector calls suspended at an await
  deleteCalls,        \* number of deleteVector calls made in this run
  last                \* the handler step taken last: [op, arg, ret]

vars == <<index, hf, writeFails, freeEmbedding, localVectors, vectorFile, pinecone, nextId, vectorCache, batchQueue,
          isProcessingBatch, flights, nextDoc, embeds, embedCalls, semanticCache,
          searches, searchCalls, deletes, deleteCalls, last>>

storeVars == <<localVectors, pinecone, nextId>>
batchVars == <<batchQueue, isProcessingBatch, flights, nextDoc>>
embedVars == <<vectorCache, embeds, embedCalls>>
envVars == <<index, hf, writeFails>>
searchVars == <<semanticCache, searches, searchCalls>>
deleteVars == <<deletes, deleteCalls>>

\* ----------------------------------------------------------------- helpers
RemoveAt(s, i) == SubSeq(s, 1, i - 1) \o SubSeq(s, i + 1, Len(s))

ReplaceAt(s, i, x) == [s EXCEPT ![i] = x]

Range(s) == {s[i] : i \in DOMAIN s}

\* A Map kept as the sequence of its entries [key, value] in insertion order.
MapHas(m, k) == \E i \in DOMAIN m : m[i].key = k

MapGet(m, k) == m[CHOOSE i \in DOMAIN m : m[i].key = k].value

\* Map.prototype.set: an existing key keeps its place, a new key goes last.
MapSet(m, k, v) ==
  IF MapHas(m, k)
    THEN [i \in DOMAIN m |-> IF m[i].key = k THEN [key |-> k, value |-> v] ELSE m[i]]
    ELSE Append(m, [key |-> k, value |-> v])

\* generateCacheKey: md5 of the text, taken to be injective.
generateCacheKey(text) == <<"md5", text>>

\* uuidv4(): the n-th value drawn is n.
uuidv4 == nextId + 1

\* Metadata objects and filters are sequences of <<key, value>> pairs in the
\* order of their keys.  metadata[key], "undefined" for a key that is not there:
MetaGet(meta, key) ==
  IF \E i \in DOMAIN meta : meta[i][1] = key
    THEN meta[CHOOSE i \in DOMAIN meta : meta[i][1] = key][2]
    ELSE "undefined"

\* Object spread { ...a, ...b }: the keys of a keep their place and take b's
\* value where b has them, the other keys of b follow.
Spread(a, b) ==
  LET new == {j \in DOMAIN b : \A i \in DOMAIN a : a[i][1] # b[j][1]}
      rank(j) == Cardinality({k \in new : k <= j})
  IN [i \in DOMAIN a |-> <<a[i][1], IF MetaGet(b, a[i][1]) = "undefined"
                                        THEN a[i][2] ELSE MetaGet(b, a[i][1])>>]
     \o [p \in 1..Cardinality(new) |-> b[CHOOSE j \in new : rank(j) = p]]

\* createEmbedding, lines 310-316: enhancedMetadata = { ...baseMeta (with the
\* caller's metadata spread in), provider, embeddingLength, timestamp,
\* semanticTags }.  The text is kept apart (src of the record), the length is
\* the record's len; of the keys set after the caller's, provider is kept.
EnhancedMetadata(metadata, provider) == Spread(metadata, << <<"provider", provider>> >>)

\* vectorData = { id, values, metadata }: the vector by its length, the text
\* (metadata.text) by where it came from.
VectorData(id, len, src, metadata) ==
  [id |-> id, len |-> len, src |-> src, metadata |-> metadata]

\* Mutant: only the record set last is written.
fromEntries_Last(store) ==
  IF store = <<>> THEN <<>>
  ELSE <<[key |-> store[Len(store)].id, value |-> store[Len(store)]]>>

\* saveLocalVectors, line 273: Object.fromEntries(this.localVectors), the object
\* whose JSON text fs.writeJSON writes: one entry per record under its id, in
\* the order of the map.
fromEntries(store) == [i \in DOMAIN store |-> [key |-> store[i].id, value |-> store[i]]]

\* loadLocalVectors, line 265: new Map(Object.entries(data)): the record of each
\* entry under the entry's key, in the order of the file.
LoadedMap(data) == [i \in DOMAIN data |-> [data[i].value EXCEPT !.id = data[i].key]]

\* A snapshot file that holds the complete JSON text of `data`.  Its size is
\* counted in entries.
FileOf(data) == [entries |-> data, size |-> Len(data), whole |-> TRUE]

\* fs.writeJSON, line 274, opens the file for writing, which empties it.
Truncated == [entries |-> <<>>, size |-> 0, whole |-> FALSE]

\* fs.writeJSON then writes the text from the start of the file: over a longer
\* text that another write has left since, the tail of that text stays and the
\* file holds no complete JSON text.
Overwritten(file, data) ==
  IF file.size > Len(data)
    THEN [entries |-> <<>>, size |-> file.size, whole |-> FALSE]
    ELSE FileOf(data)

\* The outcomes of a step of a file write: it succeeds, or it may fail.
WriteOutcomes == IF writeFails THEN BOOLEAN ELSE {TRUE}

\* ---------------------------------------------------------- FreeEmbedding
\* A text is the sequence of the words that splitting it at white space and
\* punctuation gives.  The words that texts are made of here:
RawWords == {"cat", "Cat", "dog", "the", "ox"}

\* The texts that documents are made of.
DocTexts == { <<"cat", "dog">>, <<"cat", "bird">>, <<"the", "ox">> }

\* word.toLowerCase()
toLowerCase(word) == IF word = "Cat" THEN "cat" ELSE word

\* isStopWord(word), with the words of the list that occur here.
isStopWord(word) == word \in {"the", "and", "not"}

\* preprocessText(text): the lower-case words longer than two letters that
\* are no stop words.
preprocessText(text) ==
  SelectSeq([i \in DOMAIN text |-> toLowerCase(text[i])],
            LAMBDA word : Len(word) > 2 /\ ~isStopWord(word))

\* The words that survive preprocessText.
Tokens == {"cat", "dog", "bird"}

\* An entry of this.idf is <<"log", n, d>> for Math.log(n / d), and
\* <<"none", 0, 0>> for a word the map does not hold; <<"one", 0, 0>> is 1.
NoIdf == <<"none", 0, 0>>
One == <<"one", 0, 0>>

\* Math.log(n / d) is 0 for n = d and -Infinity for n = 0.
IsZero(v) == v[1] = "log" /\ v[2] = v[3]
IsMinusInfinity(v) == v[1] = "log" /\ v[2] = 0

\* The instance after the constructor, lines 7-12.
NewFreeEmbedding ==
  [vocabulary |-> [w \in Tokens |-> 0], idf |-> [w \in Tokens |-> NoIdf],
   documentCount |-> 0]

\* Mutant: the stored idf taken as it is, 0 included.
InverseDocFreq_KeepZero(fe, word) ==
  IF fe.idf[word] = NoIdf THEN One ELSE fe.idf[word]

\* line 67: this.idf.get(word) || 1.  A missing entry and 0 are replaced by 1.
InverseDocFreq(fe, word) ==
  IF fe.idf[word] = NoIdf \/ IsZero(fe.idf[word]) THEN One ELSE fe.idf[word]

\* calculateTfIdf(words), lines 54-72: for every word its weight
\* count / totalWords * inverseDocFreq, kept as its three parts.
calculateTfIdf(fe, words) ==
  [word \in Range(words) |->
     [count |-> Cardinality({i \in DOMAIN words : words[i] = word}),
      total |-> Len(words),
      idf |-> InverseDocFreq(fe, word)]]

\* FreeEmbedding.createEmbedding(text), lines 75-107, for a string.  The
\* result has EmbeddingDim coordinates.  Word vectors have no zero coordinate
\* (line 22) and those of different words are taken as linearly independent,
\* so the weighted sum is the zero vector only when every weight is 0; it is
\* not finite when a weight is -Infinity, and the normalisation of line 106
\* then leaves NaN in every coordinate.  Otherwise the result is the unit
\* vector that the weights determine.
freeCreateEmbedding(fe, text) ==
  LET words == preprocessText(text)
      tfidf == calculateTfIdf(fe, words)
      kind == IF words = <<>> THEN "zero"
              ELSE IF \E w \in Range(words) : IsMinusInfinity(tfidf[w].idf) THEN "NaN"
              ELSE IF \A w \in Range(words) : IsZero(tfidf[w].idf) THEN "zero"
              ELSE "unit"
  IN [length |-> EmbeddingDim, kind |-> kind,
      weights |-> IF kind = "unit" THEN {<<w, tfidf[w]>> : w \in Range(words)} ELSE {}]

\* FreeEmbedding.updateVocabulary(texts), lines 118-133.
updateVocabulary(fe, texts) ==
  LET documentWordSets == [i \in DOMAIN texts |-> Range(preprocessText(texts[i]))]
      vocabulary == [w \in Tokens |->
                       fe.vocabulary[w]
                       + Cardinality({i \in DOMAIN texts : w \in documentWordSets[i]})]
  IN [vocabulary |-> vocabulary,
      idf |-> [w \in Tokens |-> IF vocabulary[w] > 0
                                   THEN <<"log", Len(texts), vocabulary[w]>>
                                   ELSE fe.idf[w]],
      documentCount |-> Len(texts)]

\* The texts passed to createEmbedding and the lists passed to updateVocabulary.
EmbedTexts == UNION { [1..n -> RawWords] : n \in 0..MaxWords }
UpdateLists == UNION { [1..n -> DocTexts] : n \in 0..MaxUpdateTexts }

\* ----------------------------------------------------------- initial state
Init ==
  /\ index \in BOOLEAN
  /\ hf \in BOOLEAN
  /\ writeFails \in BOOLEAN
  /\ freeEmbedding = NewFreeEmbedding
  /\ localVectors = <<>>
  /\ vectorFile = FileOf(<<>>)
  /\ pinecone = <<>>
  /\ nextId = 0
  /\ vectorCache = <<>>
  /\ batchQueue = <<>>
  /\ isProcessingBatch = FALSE
  /\ flights = <<>>
  /\ nextDoc = 0
  /\ embeds = <<>>
  /\ embedCalls = 0
  /\ semanticCache = <<>>
  /\ searches = <<>>
  /\ searchCalls = 0
  /\ deletes = <<>>
  /\ deleteCalls = 0
  /\ last = [op |-> "init", arg |-> <<>>, ret |-> <<>>]

\* ------------------------------------------------------------ batch queue
\* Mutant: the guard without the single-flight flag.
ShouldStartFlush_NoFlag(busy, q) == ~(Len(q) = 0)

\* processBatch, line 703: the guard that lets a flush start.
ShouldStartFlush(busy, q) == ~(busy \/ Len(q) = 0)

\* Mutant: the timer flushes only a full queue.
TimerFires_NeedsFull(busy, q) == Len(q) >= BatchThreshold /\ ~busy

\* startBatchProcessor, line 687: the timer callback's own condition.
TimerFires(busy, q) == Len(q) > 0 /\ ~busy

\* addToBatch, line 697: the size trigger.
SizeTrigger(q) == Len(q) >= BatchThreshold

\* Mutant: the document is put at the front.
Enqueue_Unshift(q, doc) == <<doc>> \o q

\* addToBatch, line 694: this.batchQueue.push(document).
Enqueue(q, doc) == Append(q, doc)

\* Mutant: the failed batch is not put back.
Requeue_Drop(batch, q) == q

\* Mutant: the failed batch is pushed behind the queue.
Requeue_Push(batch, q) == q \o batch

\* processBatch, line 716: this.batchQueue.unshift(...batchToProcess).
Requeue(batch, q) == batch \o q

\* Mutant: every record is set as soon as its embedding arrives.
LocalBatchSet_Eager(store, vectors, total) == Append(store, vectors[Len(vectors)])

\* batchInsert, lines 545-548: the local store after the embedding of one more
\* document of the batch has arrived; the records are set only after the loop.
LocalBatchSet(store, vectors, total) ==
  IF Len(vectors) = total THEN store \o vectors ELSE store

\* processBatch up to its await of batchInsert, called with the queue q.
ProcessBatch(q) ==
  IF ShouldStartFlush(isProcessingBatch, q)
    THEN /\ isProcessingBatch' = TRUE
         /\ batchQueue' = <<>>
         /\ flights' = Append(flights, [batch |-> q, vectors |-> <<>>,
                                         data |-> <<>>, pc |-> "embed"])
    ELSE /\ batchQueue' = q
         /\ UNCHANGED <<isProcessingBatch, flights>>

\* addToBatch(document): the document is the nextDoc-th one enqueued.
AddToBatch ==
  /\ nextDoc < MaxDocs
  /\ nextDoc' = nextDoc + 1
  /\ LET q == Enqueue(batchQueue, nextDoc + 1) IN
       IF SizeTrigger(q)
         THEN ProcessBatch(q)
         ELSE batchQueue' = q /\ UNCHANGED <<isProcessingBatch, flights>>
  /\ last' = [op |-> "addToBatch", arg |-> <<nextDoc + 1>>, ret |-> <<>>]
  /\ UNCHANGED <<storeVars, embedVars, envVars, freeEmbedding, vectorFile, deleteVars, searchVars>>

\* One firing of the setInterval callback of startBatchProcessor.
TimerTick ==
  /\ IF TimerFires(isProcessingBatch, batchQueue)
       THEN ProcessBatch(batchQueue)
       ELSE UNCHANGED <<batchQueue, isProcessingBatch, flights>>
  /\ last' = [op |-> "tick", arg |-> <<>>, ret |-> <<>>]
  /\ UNCHANGED <<nextDoc, storeVars, embedVars, envVars, freeEmbedding, vectorFile, deleteVars, searchVars>>

\* A flight whose batchInsert is still in its embedding loop.
Embedding(f) == Len(f.vectors) < Len(f.batch)

\* batchInsert: the OpenAI embedding of the next document arrives; after the
\* last one the records go to the local map (local mode), saveLocalVectors
\* takes the object to write and the method waits for it, or the method waits
\* for index.upsert (Pinecone mode).
BatchEmbedOk(i) ==
  /\ Embedding(flights[i])
  /\ nextId < MaxIds
  /\ LET f == flights[i]
         d == f.batch[Len(f.vectors) + 1]
         vs == Append(f.vectors, VectorData(uuidv4, OpenAIDim, <<"doc", d>>, <<>>))
     IN /\ localVectors' =
             IF index THEN localVectors
                      ELSE LocalBatchSet(localVectors, vs, Len(f.batch))
        /\ flights' = ReplaceAt(flights, i,
             IF ~index /\ Len(vs) = Len(f.batch)
               THEN [f EXCEPT !.vectors = vs, !.pc = "save", !.data = fromEntries(localVectors')]
               ELSE [f EXCEPT !.vectors = vs])
        /\ last' = [op |-> "batchEmbed", arg |-> f.batch, ret |-> <<>>]
  /\ nextId' = nextId + 1
  /\ UNCHANGED <<pinecone, batchQueue, isProcessingBatch, nextDoc, embedVars, envVars, freeEmbedding, vectorFile, deleteVars, searchVars>>

\* Mutant: the catch without the finally: the flag stays set.
FlushFailed_FlagStays(i) ==
  /\ batchQueue' = Requeue(flights[i].batch, batchQueue)
  /\ isProcessingBatch' = isProcessingBatch
  /\ flights' = RemoveAt(flights, i)
  /\ last' = [op |-> "flushFail", arg |-> flights[i].batch, ret |-> <<>>]

\* processBatch's catch and finally after batchInsert threw.
FlushFailed(i) ==
  /\ batchQueue' = Requeue(flights[i].batch, batchQueue)
  /\ isProcessingBatch' = FALSE
  /\ flights' = RemoveAt(flights, i)
  /\ last' = [op |-> "flushFail", arg |-> flights[i].batch, ret |-> <<>>]

\* processBatch's finally after batchInsert returned.
FlushDone(i) ==
  /\ isProcessingBatch' = FALSE
  /\ flights' = RemoveAt(flights, i)
  /\ last' = [op |-> "flushOk", arg |-> flights[i].batch, ret |-> <<>>]
  /\ UNCHANGED batchQueue

\* batchInsert: the OpenAI call for the next document throws.
BatchEmbedFail(i) ==
  /\ Embedding(flights[i])
  /\ FlushFailed(i)
  /\ UNCHANGED <<nextDoc, storeVars, embedVars, envVars, freeEmbedding, vectorFile, deleteVars, searchVars>>

\* batchInsert, line 544: index.upsert(vectors) resolves.
BatchUpsertOk(i) ==
  /\ index
  /\ ~Embedding(flights[i])
  /\ pinecone' = pinecone \o flights[i].vectors
  /\ FlushDone(i)
  /\ UNCHANGED <<nextDoc, localVectors, nextId, embedVars, envVars, freeEmbedding, vectorFile, deleteVars, searchVars>>

\* batchInsert, line 544: index.upsert(vectors) rejects, nothing is stored.
BatchUpsertFail(i) ==
  /\ index
  /\ ~Embedding(flights[i])
  /\ FlushFailed(i)
  /\ UNCHANGED <<nextDoc, storeVars, embedVars, envVars, freeEmbedding, vectorFile, deleteVars, searchVars>>

\* batchInsert, line 549, in saveLocalVectors: fs.writeJSON opens the file; if
\* that fails the error is logged (line 276) and batchInsert returns.
BatchSaveOpen(i) ==
  /\ flights[i].pc = "save"
  /\ \E ok \in WriteOutcomes :
       IF ok
         THEN /\ vectorFile' = Truncated
              /\ flights' = ReplaceAt(flights, i, [flights[i] EXCEPT !.pc = "write"])
              /\ last' = [op |-> "saveOpen", arg |-> flights[i].batch, ret |-> <<>>]
              /\ UNCHANGED <<batchQueue, isProcessingBatch>>
         ELSE /\ FlushDone(i)
              /\ UNCHANGED vectorFile
  /\ UNCHANGED <<nextDoc, storeVars, embedVars, envVars, freeEmbedding, deleteVars, searchVars>>

\* batchInsert, line 549: the write ends and saveLocalVectors resolves (it
\* never rejects).
BatchSaveDone(i) ==
  /\ flights[i].pc = "write"
  /\ \E ok \in WriteOutcomes :
       vectorFile' = IF ok THEN Overwritten(vectorFile, flights[i].data) ELSE vectorFile
  /\ FlushDone(i)
  /\ UNCHANGED <<nextDoc, storeVars, embedVars, envVars, freeEmbedding, deleteVars, searchVars>>

\* -------------------------------------------------------- createEmbedding
Texts == 1..MaxTexts

\* The metadata objects the callers pass: none, a category, and one with a key
\* that createEmbedding sets itself.
Metas == { <<>>, << <<"cat", "a">> >>, << <<"provider", "x">> >> }

\* The result { id, embedding, metadata } a createEmbedding call returns.
Result(rec) == [id |-> rec.id, len |-> rec.len, src |-> rec.src, metadata |-> rec.metadata]

\* createEmbedding(text), lines 282-297: a cached result is returned as it is;
\* otherwise the call waits for the OpenAI embedding.
CreateEmbedding(text, metadata) ==
  /\ embedCalls < MaxEmbedCalls
  /\ embedCalls' = embedCalls + 1
  /\ IF MapHas(vectorCache, generateCacheKey(text))
       THEN /\ last' = [op |-> "createEmbedding", arg |-> <<text, metadata>>,
                        ret |-> <<MapGet(vectorCache, generateCacheKey(text))>>]
            /\ UNCHANGED embeds
       ELSE /\ Len(embeds) < MaxInflight
            /\ embeds' = Append(embeds, [text |-> text, metadata |-> metadata,
                                         pc |-> "openai", rec |-> <<>>, data |-> <<>>])
            /\ last' = [op |-> "createEmbeddingCall", arg |-> <<text, metadata>>, ret |-> <<>>]
  /\ UNCHANGED <<vectorCache, storeVars, batchVars, envVars, freeEmbedding, vectorFile, deleteVars, searchVars>>

\* createEmbedding, lines 309-319: with the embedding at hand the record gets
\* its id and goes to index.upsert (awaited) or into the local map, followed by
\* the awaited saveLocalVectors, which takes the object to write at once.  No
\* check of the embedding's length is made.
StoreEmbedding(i, len, provider) ==
  /\ nextId < MaxIds
  /\ nextId' = nextId + 1
  /\ LET rec == VectorData(uuidv4, len, <<"text", embeds[i].text>>,
                           EnhancedMetadata(embeds[i].metadata, provider)) IN
       IF index
         THEN /\ embeds' = ReplaceAt(embeds, i, [embeds[i] EXCEPT !.pc = "upsert", !.rec = <<rec>>])
              /\ UNCHANGED localVectors
         ELSE /\ localVectors' = Append(localVectors, rec)
              /\ embeds' = ReplaceAt(embeds, i, [embeds[i] EXCEPT !.pc = "save", !.rec = <<rec>>,
                                                     !.data = fromEntries(localVectors')])
  /\ last' = [op |-> "embedStore", arg |-> <<embeds[i].text>>, ret |-> <<>>]
  /\ UNCHANGED <<pinecone, vectorCache, embedCalls, batchVars, envVars, freeEmbedding, vectorFile, deleteVars, searchVars>>

\* The call ends by throwing: the outer catch logs and rethrows.
EmbedThrow(i) ==
  /\ embeds' = RemoveAt(embeds, i)
  /\ last' = [op |-> "createEmbeddingThrow", arg |-> <<embeds[i].text>>, ret |-> <<>>]
  /\ UNCHANGED <<vectorCache, embedCalls, storeVars, batchVars, envVars, freeEmbedding, vectorFile, deleteVars, searchVars>>

\* createEmbedding, lines 320-325: the result is cached and returned.
EmbedReturn(i) ==
  /\ vectorCache' = MapSet(vectorCache, generateCacheKey(embeds[i].text),
                           Result(embeds[i].rec[1]))
  /\ embeds' = RemoveAt(embeds, i)
  /\ last' = [op |-> "createEmbedding", arg |-> <<embeds[i].text, embeds[i].metadata>>,
              ret |-> <<Result(embeds[i].rec[1])>>]
  /\ UNCHANGED <<embedCalls, batchVars, envVars, freeEmbedding, deleteVars, searchVars>>

\* line 297: openai.embeddings.create resolves.
EmbedOpenAIOk(i) ==
  /\ embeds[i].pc = "openai"
  /\ StoreEmbedding(i, OpenAIDim, "openai")

\* lines 304-306: it rejects; createHuggingFaceEmbedding throws at once when
\* no HuggingFace client is configured (line 448), else the call waits for it.
EmbedOpenAIFail(i) ==
  /\ embeds[i].pc = "openai"
  /\ IF hf
       THEN /\ embeds' = ReplaceAt(embeds, i, [embeds[i] EXCEPT !.pc = "hf"])
            /\ last' = [op |-> "embedFallback", arg |-> <<embeds[i].text>>, ret |-> <<>>]
            /\ UNCHANGED <<vectorCache, embedCalls, storeVars, batchVars, envVars, freeEmbedding, vectorFile, deleteVars, searchVars>>
       ELSE EmbedThrow(i)

\* line 449: hf.featureExtraction resolves.
EmbedHFOk(i) ==
  /\ embeds[i].pc = "hf"
  /\ StoreEmbedding(i, HFDim, "huggingface")

\* line 449: hf.featureExtraction rejects.
EmbedHFFail(i) ==
  /\ embeds[i].pc = "hf"
  /\ EmbedThrow(i)

\* line 319: index.upsert resolves.
EmbedUpsertOk(i) ==
  /\ embeds[i].pc = "upsert"
  /\ pinecone' = Append(pinecone, embeds[i].rec[1])
  /\ EmbedReturn(i)
  /\ UNCHANGED <<localVectors, nextId, vectorFile>>

\* line 319: index.upsert rejects.
EmbedUpsertFail(i) ==
  /\ embeds[i].pc = "upsert"
  /\ EmbedThrow(i)

\* line 319, in saveLocalVectors: fs.writeJSON opens the file; if that fails
\* the error is logged (line 276) and createEmbedding goes on to return.
EmbedSaveOpen(i) ==
  /\ embeds[i].pc = "save"
  /\ \E ok \in WriteOutcomes :
       IF ok
         THEN /\ vectorFile' = Truncated
              /\ embeds' = ReplaceAt(embeds, i, [embeds[i] EXCEPT !.pc = "write"])
              /\ last' = [op |-> "saveOpen", arg |-> <<embeds[i].text>>, ret |-> <<>>]
              /\ UNCHANGED <<vectorCache, embedCalls, batchVars, envVars, freeEmbedding, deleteVars, searchVars>>
         ELSE /\ EmbedReturn(i)
              /\ UNCHANGED vectorFile
  /\ UNCHANGED storeVars

\* line 319: the write ends and saveLocalVectors resolves (it never rejects).
EmbedSaveDone(i) ==
  /\ embeds[i].pc = "write"
  /\ \E ok \in WriteOutcomes :
       vectorFile' = IF ok THEN Overwritten(vectorFile, embeds[i].data) ELSE vectorFile
  /\ EmbedReturn(i)
  /\ UNCHANGED storeVars

\* -------------------------------------------------------- similaritySearch
Min(a, b) == IF a < b THEN a ELSE b

Max(a, b) == IF a > b THEN a ELSE b

\* Array.prototype.slice(0, end): a negative end counts from the back.
Slice0(s, end) ==
  SubSeq(s, 1, IF end < 0 THEN Max(Len(s) + end, 0) ELSE Min(end, Len(s)))

\* A text is the sequence of its words (split(/\s+/) of the lowercased text),
\* a word the sequence of its letters.  String.prototype.includes:
Includes(word, part) ==
  \E k \in 0..(Len(word) - Len(part)) : SubSeq(word, k + 1, k + Len(part)) = part

\* calculateSemanticRelevance(query, text), lines 600-614, as a fraction.
calculateSemanticRelevance(query, text) ==
  IF text = <<>>
    THEN [num |-> 0, den |-> 1]
    ELSE [num |-> Cardinality({i \in DOMAIN query : \E j \in DOMAIN text :
                     Includes(text[j], query[i]) \/ Includes(query[i], text[j])}),
          den |-> Len(query)]

\* rerankResults, lines 619-620: 0.7 * score + 0.3 * semanticRelevance, here
\* times 100 * den (score is in tenths), without floating-point rounding.
Blended(r) == 7 * r.score * r.semanticRelevance.den + 30 * r.semanticRelevance.num

\* rerankResults, line 621: compare(a, b) = scoreB - scoreA < 0.
BlendedBefore(a, b) ==
  Blended(a) * b.semanticRelevance.den > Blended(b) * a.semanticRelevance.den

\* Mutant: the comparator's operands are swapped (scoreA - scoreB).
rerankResults_Swapped(results) ==
  LET n == Len(results)
      pos(i) == 1 + Cardinality({j \in 1..n :
                     \/ BlendedBefore(results[i], results[j])
                     \/ (j < i /\ ~BlendedBefore(results[j], results[i]))})
  IN [p \in 1..n |-> results[CHOOSE i \in 1..n : pos(i) = p]]

\* rerankResults(results, query), lines 616-623: Array.prototype.sort with the
\* comparator above.  The sort is stable: a result comes after those the
\* comparator puts before it and after the earlier ones it ties with.
rerankResults(results) ==
  LET n == Len(results)
      pos(i) == 1 + Cardinality({j \in 1..n :
                     \/ BlendedBefore(results[j], results[i])
                     \/ (j < i /\ ~BlendedBefore(results[i], results[j]))})
  IN [p \in 1..n |-> results[CHOOSE i \in 1..n : pos(i) = p]]

\* similaritySearch, lines 402-408: the processed form of one match.
Processed(match, query) ==
  [id |-> match.id, score |-> match.score, text |-> match.text,
   semanticRelevance |-> calculateSemanticRelevance(query, match.text)]

\* similaritySearch, line 368: md5 of query + JSON.stringify(filter) + topK.
SearchKey(query, filter, topK) == generateCacheKey(<<query, filter, topK>>)

\* Mutant: the last 500 keys go instead of the first.
EvictSemantic_Newest(m) ==
  IF Len(m) > SemanticCacheBound THEN SubSeq(m, 1, Len(m) - SemanticCacheEvict) ELSE m

\* similaritySearch, line 412: beyond 1000 entries the first 500 keys go.
EvictSemantic(m) ==
  IF Len(m) > SemanticCacheBound THEN SubSeq(m, SemanticCacheEvict + 1, Len(m)) ELSE m

\* performLocalSemanticSearch, lines 655-682.  VectorDatabaseService has no
\* method cosineSimilarity (it is a method of VectorClusteringService), so
\* line 659 throws a TypeError for the first record of the map; with an empty
\* map the loop body never runs and the sorted, sliced empty list is returned.
performLocalSemanticSearch(store, topK, filter) ==
  IF Len(store) > 0
    THEN [threw |-> TRUE, results |-> <<>>]
    ELSE [threw |-> FALSE, results |-> Slice0(<<>>, topK)]

\* Mutant: the cut to topK comes before the reranking.
FinalResults_CutFirst(s, results) ==
  LET processed == [i \in DOMAIN results |-> Processed(results[i], s.query)]
      cut == Slice0(processed, s.topK)
  IN IF s.rerank THEN rerankResults(cut) ELSE cut

\* similaritySearch, lines 402-410: the matches are processed, reranked unless
\* options.rerank === false, and then cut to topK.
FinalResults(s, results) ==
  LET processed == [i \in DOMAIN results |-> Processed(results[i], s.query)]
  IN Slice0(IF s.rerank THEN rerankResults(processed) ELSE processed, s.topK)

\* What a completed search is remembered by: its arguments and the candidates
\* (results of line 396 or 399) it ranked.
SearchArg(s, results) == <<s.query, s.topK, s.filter, s.rerank, results>>

\* Mutant: the skipCache test is inverted.
CacheHit_Inverted(cache, key, skipCache) == MapHas(cache, key) /\ skipCache

\* similaritySearch, line 369: this.semanticCache.has(cacheKey) && !options.skipCache.
CacheHit(cache, key, skipCache) == MapHas(cache, key) /\ ~skipCache

\* similaritySearch, lines 364-377: a cached list is returned unless
\* options.skipCache; otherwise the call waits for the OpenAI embedding.
SimilaritySearch(query, topK, filter, rerank, skipCache) ==
  /\ searchCalls < MaxSearchCalls
  /\ searchCalls' = searchCalls + 1
  /\ LET s == [query |-> query, topK |-> topK, filter |-> filter, rerank |-> rerank,
               multi |-> FALSE, pc |-> "openai", results |-> <<>>]
         key == SearchKey(query, filter, topK)
         arg == <<query, topK, filter, rerank, skipCache>>
     IN IF CacheHit(semanticCache, key, skipCache)
          THEN /\ last' = [op |-> "searchHit", arg |-> arg,
                           ret |-> MapGet(semanticCache, key)]
               /\ UNCHANGED searches
          ELSE /\ Len(searches) < MaxSearches
               /\ searches' = Append(searches, s)
               /\ last' = [op |-> "searchCall", arg |-> arg, ret |-> <<>>]
  /\ UNCHANGED <<semanticCache, storeVars, batchVars, embedVars, envVars, freeEmbedding, vectorFile, deleteVars>>

\* multilingualSimilaritySearch, lines 340, 356-360: the lists of the
\* sub-searches are collected in a Map by id, sorted by descending score, cut
\* to topK and returned.  One sub-search is made (see below); the ids of its
\* list are distinct, so the Map holds the list's items in their order.
Collected(list, topK) ==
  LET n == Len(list)
      pos(i) == 1 + Cardinality({j \in 1..n :
                     \/ list[j].score > list[i].score
                     \/ (j < i /\ list[j].score = list[i].score)})
  IN Slice0([p \in 1..n |-> list[CHOOSE i \in 1..n : pos(i) = p]], topK)

\* multilingualSimilaritySearch, line 340: the options of the sub-search are
\* { ...options, skipCache: false }.
SubSearchSkipCache(skipCache) == FALSE

\* multilingualSimilaritySearch(query, topK, filter, options), lines 332-345,
\* for an English query that normalizeText leaves as it is (lowercase, no
\* diacritics): one sub-search, a call of similaritySearch that either is
\* answered from the cache or waits for the OpenAI embedding.
MultilingualSimilaritySearch(query, topK, filter, rerank, skipCache) ==
  /\ searchCalls < MaxSearchCalls
  /\ searchCalls' = searchCalls + 1
  /\ LET s == [query |-> query, topK |-> topK, filter |-> filter, rerank |-> rerank,
               multi |-> TRUE, pc |-> "openai", results |-> <<>>]
         key == SearchKey(query, filter, topK)
         arg == <<query, topK, filter, rerank, skipCache>>
     IN IF CacheHit(semanticCache, key, SubSearchSkipCache(skipCache))
          THEN /\ last' = [op |-> "multilingualHit", arg |-> arg,
                           ret |-> Collected(MapGet(semanticCache, key), topK)]
               /\ UNCHANGED searches
          ELSE /\ Len(searches) < MaxSearches
               /\ searches' = Append(searches, s)
               /\ last' = [op |-> "multilingualCall", arg |-> arg, ret |-> <<>>]
  /\ UNCHANGED <<semanticCache, storeVars, batchVars, embedVars, envVars, freeEmbedding, vectorFile, deleteVars>>

\* The call ends by throwing: the catch of line 416 logs and rethrows.  The
\* runOne of a multilingual search catches the error (line 341), nothing is
\* collected and the empty list is returned.
SearchThrow(i, error) ==
  /\ searches' = RemoveAt(searches, i)
  /\ last' = IF searches[i].multi
              THEN [op |-> "multilingual", arg |-> <<>>, ret |-> <<>>]
              ELSE [op |-> "searchThrow", arg |-> <<>>, ret |-> <<error>>]
  /\ UNCHANGED <<semanticCache, searchCalls, storeVars, batchVars, embedVars, envVars, freeEmbedding, vectorFile, deleteVars>>

\* similaritySearch, line 399: the local scan runs as soon as the embedding is
\* there; its (already settled) promise is then awaited.
LocalSearch(i) ==
  LET s == searches[i]
      r == performLocalSemanticSearch(localVectors, s.topK, s.filter)
  IN IF r.threw
       THEN SearchThrow(i, "TypeError")
       ELSE /\ searches' = ReplaceAt(searches, i, [s EXCEPT !.pc = "local", !.results = r.results])
            /\ last' = [op |-> "searchScan", arg |-> <<>>, ret |-> <<>>]
            /\ UNCHANGED <<semanticCache, searchCalls, storeVars, batchVars, embedVars, envVars, freeEmbedding, vectorFile, deleteVars>>

\* similaritySearch, lines 402-415: rerank, cut to topK, cache, evict, return.
SearchReturn(i, results) ==
  LET s == searches[i]
      finalResults == FinalResults(s, results)
  IN /\ semanticCache' = EvictSemantic(MapSet(semanticCache,
                            SearchKey(s.query, s.filter, s.topK), finalResults))
     /\ searches' = RemoveAt(searches, i)
     /\ last' = IF s.multi
                 THEN [op |-> "multilingual", arg |-> SearchArg(s, results),
                       ret |-> Collected(finalResults, s.topK)]
                 ELSE [op |-> "search", arg |-> SearchArg(s, results), ret |-> finalResults]
     /\ UNCHANGED <<searchCalls, storeVars, batchVars, embedVars, envVars, freeEmbedding, vectorFile, deleteVars>>

\* line 377: openai.embeddings.create resolves; with an index the call waits
\* for index.query, without one it scans the local map.
SearchOpenAIOk(i) ==
  /\ searches[i].pc = "openai"
  /\ IF index
       THEN /\ searches' = ReplaceAt(searches, i, [searches[i] EXCEPT !.pc = "query"])
            /\ last' = [op |-> "searchQuery", arg |-> <<>>, ret |-> <<>>]
            /\ UNCHANGED <<semanticCache, searchCalls, storeVars, batchVars, embedVars, envVars, freeEmbedding, vectorFile, deleteVars>>
       ELSE LocalSearch(i)

\* lines 384-388: it rejects; without a HuggingFace client the error is rethrown.
SearchOpenAIFail(i) ==
  /\ searches[i].pc = "openai"
  /\ IF hf
       THEN /\ searches' = ReplaceAt(searches, i, [searches[i] EXCEPT !.pc = "hf"])
            /\ last' = [op |-> "searchFallback", arg |-> <<>>, ret |-> <<>>]
            /\ UNCHANGED <<semanticCache, searchCalls, storeVars, batchVars, embedVars, envVars, freeEmbedding, vectorFile, deleteVars>>
       ELSE SearchThrow(i, "openai")

\* line 387: the HuggingFace embedding arrives; provider is 'huggingface', so
\* the local map is scanned even when an index is configured (line 392).
SearchHFOk(i) ==
  /\ searches[i].pc = "hf"
  /\ LocalSearch(i)

\* line 387: the HuggingFace call rejects.
SearchHFFail(i) ==
  /\ searches[i].pc = "hf"
  /\ SearchThrow(i, "huggingface")

\* line 399: the awaited local scan's list is taken up.
SearchLocalDone(i) ==
  /\ searches[i].pc = "local"
  /\ SearchReturn(i, searches[i].results)

\* The words of a stored text, as calculateSemanticRelevance splits them.
TextWords(src) ==
  IF src = <<"text", 1>> THEN << <<"c">> >>
  ELSE IF src = <<"text", 2>> THEN << <<"a", "b">> >>
  ELSE << <<"d">> >>

\* The cosine score the remote index reports for a record (tenths): the second
\* and the third record are equally close to the query.
RemoteScore(id) == IF id = 1 THEN 9 ELSE 8

\* lines 393-396: the match { id, score, metadata } of a record of the index;
\* metadata.text is the stored text.
MatchOf(rec) == [id |-> rec.id, score |-> RemoteScore(rec.id), text |-> TextWords(rec.src)]

\* The equality filter of a search, { key: value, ... }: a record passes when
\* its metadata has every key of the filter with that value.
Passes(rec, filter) ==
  \A i \in DOMAIN filter : MetaGet(rec.metadata, filter[i][1]) = filter[i][2]

\* The matches of the records of the remote index that pass the filter.
RemoteMatches(filter) ==
  { MatchOf(pinecone[i]) : i \in {j \in DOMAIN pinecone : Passes(pinecone[j], filter)} }

\* What index.query may answer: at most `limit` distinct matches of the remote
\* index, best score first (Pinecone's contract); equal scores come in either
\* order.
QueryResponses(limit, filter) ==
  { r \in UNION { [1..n -> RemoteMatches(filter)] :
                    n \in 0..Min(Max(limit, 0), Cardinality(RemoteMatches(filter))) } :
      /\ \A i, j \in DOMAIN r : i # j => r[i].id # r[j].id
      /\ \A i \in DOMAIN r : i + 1 \in DOMAIN r => r[i].score >= r[i + 1].score }

\* lines 393-396: index.query resolves with its matches.
SearchQueryOk(i) ==
  /\ searches[i].pc = "query"
  /\ \E r \in QueryResponses(Min(searches[i].topK * 2, PineconeTopKCap), searches[i].filter) :
       SearchReturn(i, r)

\* line 395: index.query rejects.
SearchQueryFail(i) ==
  /\ searches[i].pc = "query"
  /\ SearchThrow(i, "pinecone")

\* The searches the callers make, as <<query, topK, filter>>: one search and
\* three that differ from it in the query, in topK and in the filter.
SearchInputs ==
  { << << <<"a", "b">> >>, 2, <<>> >>,
    << << <<"a">>, <<"c">> >>, 2, <<>> >>,
    << << <<"a", "b">> >>, 1, <<>> >>,
    << << <<"a", "b">> >>, 2, << <<"cat", "a">> >> >> }

\* ------------------------------------------------------------ deleteVector
\* Mutant: the record at the front goes, whatever its id.
LocalDelete_Shift(store, id) == SubSeq(store, 2, Len(store))

\* Map.prototype.delete(id), line 460 (and what index.deleteOne(id) does to the
\* remote index): the record under that id goes, if there is one.
LocalDelete(store, id) == SelectSeq(store, LAMBDA rec : rec.id # id)

\* What Map.prototype.delete(id) returns, and deleteVector discards.
Found(store, id) == \E i \in DOMAIN store : store[i].id = id

\* deleteVector(id), lines 455-461: with an index the call waits for
\* index.deleteOne; without one the record is deleted from the local map at
\* once, saveLocalVectors takes the object to write and the call waits for it.
DeleteVector(id) ==
  /\ deleteCalls < MaxDeleteCalls
  /\ Len(deletes) < MaxDeletes
  /\ deleteCalls' = deleteCalls + 1
  /\ IF index
       THEN /\ deletes' = Append(deletes, [id |-> id, pc |-> "deleteOne", data |-> <<>>])
            /\ UNCHANGED localVectors
       ELSE /\ localVectors' = LocalDelete(localVectors, id)
            /\ deletes' = Append(deletes, [id |-> id, pc |-> "save",
                                           data |-> fromEntries(localVectors')])
  /\ last' = [op |-> "deleteCall", arg |-> <<id>>, ret |-> <<>>]
  /\ UNCHANGED <<pinecone, nextId, batchVars, embedVars, envVars, freeEmbedding, vectorFile, searchVars>>

\* lines 463, 467: the method logs and ends without a return statement, so the
\* promise resolves to undefined.  A returned JavaScript value is <<type>> or
\* <<type, value>>.
DeleteReturn(i) ==
  /\ deletes' = RemoveAt(deletes, i)
  /\ last' = [op |-> "deleteVector", arg |-> <<deletes[i].id>>, ret |-> <<"undefined">>]
  /\ UNCHANGED <<deleteCalls, localVectors, nextId, batchVars, embedVars, envVars, freeEmbedding, searchVars>>

\* line 461, in saveLocalVectors: fs.writeJSON opens the file; if that fails
\* the error is logged (line 276) and deleteVector goes on to return.
DeleteSaveOpen(i) ==
  /\ deletes[i].pc = "save"
  /\ \E ok \in WriteOutcomes :
       IF ok
         THEN /\ vectorFile' = Truncated
              /\ deletes' = ReplaceAt(deletes, i, [deletes[i] EXCEPT !.pc = "write"])
              /\ last' = [op |-> "saveOpen", arg |-> <<deletes[i].id>>, ret |-> <<>>]
              /\ UNCHANGED <<deleteCalls, localVectors, nextId, batchVars, embedVars, envVars, freeEmbedding, searchVars>>
         ELSE /\ DeleteReturn(i)
              /\ UNCHANGED vectorFile
  /\ UNCHANGED pinecone

\* line 461: the write ends and saveLocalVectors resolves (it never rejects).
DeleteSaveDone(i) ==
  /\ deletes[i].pc = "write"
  /\ \E ok \in WriteOutcomes :
       vectorFile' = IF ok THEN Overwritten(vectorFile, deletes[i].data) ELSE vectorFile
  /\ DeleteReturn(i)
  /\ UNCHANGED pinecone

\* line 458: index.deleteOne resolves; the remote index has dropped the record
\* if it had one.
DeleteOneOk(i) ==
  /\ deletes[i].pc = "deleteOne"
  /\ pinecone' = LocalDelete(pinecone, deletes[i].id)
  /\ DeleteReturn(i)
  /\ UNCHANGED vectorFile

\* lines 458, 464-466: index.deleteOne rejects; the catch logs and rethrows.
DeleteOneFail(i) ==
  /\ deletes[i].pc = "deleteOne"
  /\ deletes' = RemoveAt(deletes, i)
  /\ last' = [op |-> "deleteThrow", arg |-> <<deletes[i].id>>, ret |-> <<>>]
  /\ UNCHANGED <<deleteCalls, storeVars, batchVars, embedVars, envVars, freeEmbedding, vectorFile, searchVars>>

\* The ids passed to deleteVector: those of the two stored records and one
\* that was never drawn.
DeleteIds == 1..3

\* ---------------------------------------------------------- getVectorStats
\* Mutant: the dimension of the embedding model, whatever the map holds.
LocalStats_FixedDim(store) ==
  [totalVectors |-> Len(store), dimension |-> OpenAIDim, indexFullness |-> 0]

\* getVectorStats, lines 480-486: the statistics of the local map; the
\* dimension is the length of the vector of the first record of the map.
LocalStats(store) ==
  [totalVectors |-> Len(store),
   dimension |-> IF Len(store) > 0 THEN store[1].len ELSE 0,
   indexFullness |-> 0]

\* lines 473-478: what index.describeIndexStats answers for the remote index.
RemoteStats(store) ==
  [totalVectors |-> Len(store), dimension |-> OpenAIDim, indexFullness |-> 0]

\* lines 488-490: the statistics returned when describeIndexStats rejects.
ZeroStats == [totalVectors |-> 0, dimension |-> 0, indexFullness |-> 0]

\* getVectorStats(), lines 470-491.  Nothing but the returned object depends on
\* the answer of describeIndexStats, so the call is one step.
GetVectorStats ==
  /\ \E ok \in BOOLEAN :
       last' = [op |-> "getVectorStats", arg |-> <<>>,
                ret |-> <<IF index THEN (IF ok THEN RemoteStats(pinecone) ELSE ZeroStats)
                                   ELSE LocalStats(localVectors)>>]
  /\ UNCHANGED <<storeVars, batchVars, embedVars, envVars, freeEmbedding, vectorFile, deleteVars, searchVars>>

\* ---------------------------------------------- FreeEmbedding operations
\* One call of updateVocabulary(texts).
UpdateVocabulary ==
  /\ \E texts \in UpdateLists :
       LET fe == updateVocabulary(freeEmbedding, texts)
       IN /\ \A w \in Tokens : fe.vocabulary[w] <= MaxDocFreq
          /\ freeEmbedding' = fe
          /\ last' = [op |-> "updateVocabulary", arg |-> <<texts>>, ret |-> <<>>]
  /\ UNCHANGED <<storeVars, batchVars, embedVars, envVars, vectorFile, deleteVars, searchVars>>

\* One call of createEmbedding(text) of the FreeEmbedding instance.
FreeCreateEmbedding ==
  /\ \E text \in EmbedTexts :
       last' = [op |-> "freeEmbedding", arg |-> <<text>>,
                ret |-> <<freeCreateEmbedding(freeEmbedding, text)>>]
  /\ UNCHANGED <<storeVars, batchVars, embedVars, envVars, freeEmbedding, vectorFile, deleteVars, searchVars>>

FreeEmbeddingStep == UpdateVocabulary \/ FreeCreateEmbedding

\* -------------------------------------------------------------- clustering
\* A vector is taken with one coordinate, an integer.  A centroid is the mean
\* of vectors, kept exactly as <<sum, count>>.
PointValues == {-1, 0, 2}

Abs(x) == IF x < 0 THEN -x ELSE x

RECURSIVE SumOver(_, _)
\* The sum of the points at the positions `members`.
SumOver(points, members) ==
  IF members = {} THEN 0
  ELSE LET i == CHOOSE m \in members : TRUE
       IN points[i] + SumOver(points, members \ {i})

\* euclideanDistance(v, a) < euclideanDistance(v, b), lines 78-80, for the
\* centroids a and b.
Closer(v, a, b) == Abs(v * a[2] - a[1]) * b[2] < Abs(v * b[2] - b[1]) * a[2]

\* Mutant: the centroid's position counted from 1.
ClosestCentroid_OneBased(v, centroids) ==
  IF centroids = <<>> THEN 0
  ELSE CHOOSE j \in DOMAIN centroids :
         /\ \A l \in DOMAIN centroids : ~Closer(v, centroids[l], centroids[j])
         /\ \A l \in 1..(j - 1) : Closer(v, centroids[j], centroids[l])

\* lines 33-43: the index (from 0) of the first centroid at the least distance
\* of v; 0 when there is no centroid.
ClosestCentroid(v, centroids) ==
  IF centroids = <<>> THEN 0
  ELSE (CHOOSE j \in DOMAIN centroids :
          /\ \A l \in DOMAIN centroids : ~Closer(v, centroids[l], centroids[j])
          /\ \A l \in 1..(j - 1) : Closer(v, centroids[j], centroids[l])) - 1

\* lines 32-49: one assignment pass.
Assign(points, centroids) ==
  [i \in DOMAIN points |-> ClosestCentroid(points[i], centroids)]

\* Mutant: a centroid without vectors is reset to the origin.
UpdateCentroids_ResetEmpty(points, assignments, centroids) ==
  [j \in DOMAIN centroids |->
     LET members == {i \in DOMAIN points : assignments[i] = j - 1}
     IN IF members = {} THEN <<0, 1>>
        ELSE <<SumOver(points, members), Cardinality(members)>>]

\* lines 53-67: every centroid that has vectors assigned becomes their mean,
\* the others stay.
UpdateCentroids(points, assignments, centroids) ==
  [j \in DOMAIN centroids |->
     LET members == {i \in DOMAIN points : assignments[i] = j - 1}
     IN IF members = {} THEN centroids[j]
        ELSE <<SumOver(points, members), Cardinality(members)>>]

\* lines 20-25: the centroids start as copies of vectors drawn at random, with
\* repetition; init[j] is the position drawn for the j-th centroid.
InitialCentroids(points, init) == [j \in DOMAIN init |-> <<points[init[j]], 1>>]

\* The draws that Math.random can make for k centroids.
Draws(points, k) == [1..k -> DOMAIN points]

\* lines 71-75: the vectors in input order, each with its cluster.
Labelled(points, assignments) ==
  [i \in DOMAIN points |-> [vector |-> points[i], cluster |-> assignments[i]]]

RECURSIVE KMeansLoop(_, _, _, _, _)
\* lines 29-68: the loop from `iteration` on.  passes is the number of
\* assignment passes made in all, centroids the centroids at the end, stable
\* tells that the loop left at line 51, and trace holds for every pass made
\* from here on the centroids it used and the assignments it gave.
KMeansLoop(points, centroids, assignments, iteration, maxIterations) ==
  IF iteration >= maxIterations
    THEN [assignments |-> assignments, passes |-> iteration, centroids |-> centroids,
          stable |-> FALSE, trace |-> <<>>]
    ELSE LET a == Assign(points, centroids)
             pass == [centroids |-> centroids, assignments |-> a]
         IN IF a = assignments
              THEN [assignments |-> a, passes |-> iteration + 1, centroids |-> centroids,
                    stable |-> TRUE, trace |-> <<pass>>]
              ELSE LET r == KMeansLoop(points, UpdateCentroids(points, a, centroids), a,
                                       iteration + 1, maxIterations)
                   IN [r EXCEPT !.trace = <<pass>> \o r.trace]

\* Mutant: the loop is run whatever the number of vectors.
performKMeansClustering_NoShortcut(points, k, maxIterations, init) ==
  LET r == KMeansLoop(points, InitialCentroids(points, init),
                      [i \in DOMAIN points |-> 0], 0, maxIterations)
  IN [out |-> Labelled(points, r.assignments), passes |-> r.passes,
      centroids |-> r.centroids, stable |-> r.stable, trace |-> r.trace]

\* VectorClusteringService.performKMeansClustering(vectors, k, maxIterations),
\* lines 17-76.
performKMeansClustering(points, k, maxIterations, init) ==
  IF Len(points) < k
    THEN [out |-> Labelled(points, [i \in DOMAIN points |-> i - 1]), passes |-> 0,
          centroids |-> <<>>, stable |-> FALSE, trace |-> <<>>]
    ELSE LET r == KMeansLoop(points, InitialCentroids(points, init),
                             [i \in DOMAIN points |-> 0], 0, maxIterations)
         IN [out |-> Labelled(points, r.assignments), passes |-> r.passes,
             centroids |-> r.centroids, stable |-> r.stable, trace |-> r.trace]

RECURSIVE VizKMeansLoop(_, _, _, _, _)
\* VectorVisualizationService.performKMeansClustering, lines 521-553: the
\* while loop; the centroids are updated in every pass.
VizKMeansLoop(points, centroids, assignments, changed, iterations) ==
  IF ~(changed /\ iterations < VizMaxIterations)
    THEN [assignments |-> assignments, passes |-> iterations]
    ELSE LET a == Assign(points, centroids)
         IN VizKMeansLoop(points, UpdateCentroids(points, a, centroids), a,
                          a # assignments, iterations + 1)

\* VectorVisualizationService.performKMeansClustering(vectors, k), lines
\* 505-561.  Without vectors, points[randomIndex] is undefined and spreading
\* it throws a TypeError (line 513) when k > 0.
vizPerformKMeansClustering(points, k, init) ==
  IF points = <<>> /\ k > 0
    THEN [threw |-> TRUE, out |-> <<>>, passes |-> 0]
    ELSE LET r == VizKMeansLoop(points, InitialCentroids(points, init),
                                [i \in DOMAIN points |-> 0], TRUE, 0)
         IN [threw |-> FALSE, out |-> Labelled(points, r.assignments), passes |-> r.passes]

\* For hierarchical clustering and the cosine similarity a vector has two
\* integer coordinates.
PlaneVectors == { <<0, 0>>, <<1, 0>>, <<0, 1>>, <<-1, 0>>, <<2, 1>> }

Dot(a, b) == a[1] * b[1] + a[2] * b[2]

\* A similarity is dot / sqrt(norms), or NaN.
NaN == [nan |-> TRUE, dot |-> 0, norms |-> 0]
Number(dot, norms) == [nan |-> FALSE, dot |-> dot, norms |-> norms]

\* VectorClusteringService.cosineSimilarity(a, b), lines 133-138, and the
\* function of the same text in routes/rag.js: with a zero vector the
\* division is 0 / 0.
cosineSimilarity(a, b) ==
  IF Dot(a, a) = 0 \/ Dot(b, b) = 0 THEN NaN
  ELSE Number(Dot(a, b), Dot(a, a) * Dot(b, b))

\* VectorVisualizationService.calculateCosineSimilarity(a, b): 0 when a
\* magnitude is 0.
calculateCosineSimilarity(a, b) ==
  IF Dot(a, a) = 0 \/ Dot(b, b) = 0 THEN Number(0, 1)
  ELSE Number(Dot(a, b), Dot(a, a) * Dot(b, b))

\* s > m in JavaScript: false when either is NaN.
Greater(s, m) ==
  /\ ~s.nan /\ ~m.nan
  /\ IF s.dot >= 0
       THEN m.dot < 0 \/ s.dot * s.dot * m.norms > m.dot * m.dot * s.norms
       ELSE m.dot < 0 /\ s.dot * s.dot * m.norms < m.dot * m.dot * s.norms

\* The numbers -1 (line 87) and threshold, given in tenths.
MinusOne == Number(-1, 1)
ThresholdValue(threshold) == Number(threshold, 100)

\* A centroid is the mean <<x, y, n>> standing for (x / n, y / n); its cosine
\* with another centroid is that of (x, y).
Direction(centroid) == <<centroid[1], centroid[2]>>

RECURSIVE FindMostSimilar_KeepsLast(_, _, _, _)
\* Mutant: every similarity above -1 replaces the pair found before.
FindMostSimilar_KeepsLast(clusters, i, j, best) ==
  IF i > Len(clusters) THEN best
  ELSE IF j > Len(clusters) THEN FindMostSimilar_KeepsLast(clusters, i + 1, i + 2, best)
  ELSE LET similarity == cosineSimilarity(Direction(clusters[i].centroid),
                                          Direction(clusters[j].centroid))
       IN FindMostSimilar_KeepsLast(clusters, i, j + 1,
            IF Greater(similarity, MinusOne)
              THEN [maxSimilarity |-> similarity, mergeIndices |-> <<i, j>>]
              ELSE best)

RECURSIVE FindMostSimilar(_, _, _, _)
\* lines 91-99: the two loops from the pair (i, j) on, positions from 1; best
\* is [maxSimilarity, mergeIndices].
FindMostSimilar(clusters, i, j, best) ==
  IF i > Len(clusters) THEN best
  ELSE IF j > Len(clusters) THEN FindMostSimilar(clusters, i + 1, i + 2, best)
  ELSE LET similarity == cosineSimilarity(Direction(clusters[i].centroid),
                                          Direction(clusters[j].centroid))
       IN FindMostSimilar(clusters, i, j + 1,
            IF Greater(similarity, best.maxSimilarity)
              THEN [maxSimilarity |-> similarity, mergeIndices |-> <<i, j>>]
              ELSE best)

\* calculateCentroid(vectors), lines 119-131, of the vectors at the positions
\* `members` of the input.
calculateCentroid(points, members) ==
  IF members = <<>> THEN <<>>
  ELSE << SumOver([i \in DOMAIN points |-> points[i][1]], Range(members)),
          SumOver([i \in DOMAIN points |-> points[i][2]], Range(members)),
          Len(members) >>

\* Mutant: the centroid is the mean of the two centroids.
MergedCluster_MeanOfCentroids(points, a, b) ==
  [members |-> a.members \o b.members,
   centroid |-> << a.centroid[1] * b.centroid[3] + b.centroid[1] * a.centroid[3],
                   a.centroid[2] * b.centroid[3] + b.centroid[2] * a.centroid[3],
                   2 * a.centroid[3] * b.centroid[3] >>]

\* lines 105-109: the merged cluster; members are the positions of its vectors
\* in the input.
MergedCluster(points, a, b) ==
  [members |-> a.members \o b.members,
   centroid |-> calculateCentroid(points, a.members \o b.members)]

RECURSIVE HierarchicalLoop(_, _, _, _)
\* lines 86-114: the while loop; trace holds for every merge the clusters
\* before it and the pair merged.
HierarchicalLoop(points, clusters, threshold, trace) ==
  IF Len(clusters) <= 1 THEN [clusters |-> clusters, trace |-> trace]
  ELSE LET best == FindMostSimilar(clusters, 1, 2,
                     [maxSimilarity |-> MinusOne, mergeIndices |-> <<1, 2>>])
           m == best.mergeIndices
       IN IF Greater(ThresholdValue(threshold), best.maxSimilarity)
            THEN [clusters |-> clusters, trace |-> trace]
            ELSE HierarchicalLoop(points,
                   Append(RemoveAt(RemoveAt(clusters, m[2]), m[1]),
                          MergedCluster(points, clusters[m[1]], clusters[m[2]])),
                   threshold,
                   Append(trace, [clusters |-> clusters, pair |-> m]))

\* VectorClusteringService.performHierarchicalClustering(vectors, threshold),
\* lines 83-117.
performHierarchicalClustering(points, threshold) ==
  HierarchicalLoop(points,
                   [i \in DOMAIN points |->
                      [members |-> <<i>>, centroid |-> <<points[i][1], points[i][2], 1>>]],
                   threshold, <<>>)

\* The vector lists passed to the clustering methods.
PointLists == UNION { [1..n -> PointValues] : n \in 0..MaxVectors }

\* The vector lists passed to hierarchical clustering.
PlaneLists == UNION { [1..n -> PlaneVectors] : n \in 0..MaxVectors }

\* The thresholds passed to hierarchical clustering, in tenths: the default
\* 0.7, 0 and -1.
Thresholds == {7, 0, -10}

\* One call of performKMeansClustering of the clustering service.  The
\* clustering methods keep nothing between calls, so a run makes one call.
KMeansCall ==
  /\ last.op = "init"
  /\ \E points \in PointLists, k \in 1..MaxK, maxIterations \in 0..MaxPasses :
       \E init \in IF Len(points) < k THEN {<<>>} ELSE Draws(points, k) :
         last' = [op |-> "kmeans", arg |-> <<points, k, maxIterations, init>>,
                  ret |-> <<performKMeansClustering(points, k, maxIterations, init)>>]
  /\ UNCHANGED <<storeVars, batchVars, embedVars, envVars, freeEmbedding, vectorFile, deleteVars, searchVars>>

\* One call of performKMeansClustering of the visualization service; its
\* caller passes at least one vector (generateVisualization throws before on
\* an empty list).
VizKMeansCall ==
  /\ last.op = "init"
  /\ \E points \in PointLists \ {<<>>}, k \in 1..MaxK :
       \E init \in Draws(points, k) :
         last' = [op |-> "vizKmeans", arg |-> <<points, k>>,
                  ret |-> <<vizPerformKMeansClustering(points, k, init)>>]
  /\ UNCHANGED <<storeVars, batchVars, embedVars, envVars, freeEmbedding, vectorFile, deleteVars, searchVars>>

\* One call of performHierarchicalClustering.
HierarchicalCall ==
  /\ last.op = "init"
  /\ \E points \in PlaneLists, threshold \in Thresholds :
       last' = [op |-> "hierarchical", arg |-> <<points, threshold>>,
                ret |-> <<performHierarchicalClustering(points, threshold)>>]
  /\ UNCHANGED <<storeVars, batchVars, embedVars, envVars, freeEmbedding, vectorFile, deleteVars, searchVars>>

\* One call of a cosine similarity routine on two vectors of the same length:
\* the clustering service's, the function of routes/rag.js, or the
\* visualization service's.
CosineCall ==
  /\ last.op = "init"
  /\ \E a \in PlaneVectors, b \in PlaneVectors, routine \in {"clustering", "rag", "visualization"} :
       last' = [op |-> "cosine", arg |-> <<a, b, routine>>,
                ret |-> <<IF routine = "visualization" THEN calculateCosineSimilarity(a, b)
                          ELSE cosineSimilarity(a, b)>>]
  /\ UNCHANGED <<storeVars, batchVars, embedVars, envVars, freeEmbedding, vectorFile, deleteVars, searchVars>>

ClusteringStep == KMeansCall \/ VizKMeansCall \/ HierarchicalCall \/ CosineCall

\* ------------------------------------------------------- specifications
BatchStep ==
  \/ AddToBatch
  \/ TimerTick
  \/ \E i \in DOMAIN flights : BatchEmbedOk(i)
  \/ \E i \in DOMAIN flights : BatchEmbedFail(i)
  \/ \E i \in DOMAIN flights : BatchUpsertOk(i)
  \/ \E i \in DOMAIN flights : BatchUpsertFail(i)
  \/ \E i \in DOMAIN flights : BatchSaveOpen(i)
  \/ \E i \in DOMAIN flights : BatchSaveDone(i)

\* The steps of the createEmbedding calls whose metadata is drawn from `metas`.
EmbedStepOver(metas) ==
  \/ \E text \in Texts, metadata \in metas : CreateEmbedding(text, metadata)
  \/ \E i \in DOMAIN embeds : EmbedOpenAIOk(i)
  \/ \E i \in DOMAIN embeds : EmbedOpenAIFail(i)
  \/ \E i \in DOMAIN embeds : EmbedHFOk(i)
  \/ \E i \in DOMAIN embeds : EmbedHFFail(i)
  \/ \E i \in DOMAIN embeds : EmbedUpsertOk(i)
  \/ \E i \in DOMAIN embeds : EmbedUpsertFail(i)
  \/ \E i \in DOMAIN embeds : EmbedSaveOpen(i)
  \/ \E i \in DOMAIN embeds : EmbedSaveDone(i)

EmbedStep == EmbedStepOver(Metas)

\* The steps of the searches whose arguments are drawn from `inputs` and whose
\* options.rerank is drawn from `reranks`.
SearchStepOver(inputs, reranks) ==
  \/ \E in \in inputs, rerank \in reranks, skipCache \in BOOLEAN :
       SimilaritySearch(in[1], in[2], in[3], rerank, skipCache)
  \/ \E i \in DOMAIN searches : SearchOpenAIOk(i)
  \/ \E i \in DOMAIN searches : SearchOpenAIFail(i)
  \/ \E i \in DOMAIN searches : SearchHFOk(i)
  \/ \E i \in DOMAIN searches : SearchHFFail(i)
  \/ \E i \in DOMAIN searches : SearchLocalDone(i)
  \/ \E i \in DOMAIN searches : SearchQueryOk(i)
  \/ \E i \in DOMAIN searches : SearchQueryFail(i)

SearchStep == SearchStepOver(SearchInputs, BOOLEAN)

\* similaritySearch and multilingualSimilaritySearch calls, with the default
\* rerank.
MultiStep ==
  \/ SearchStepOver(SearchInputs, {TRUE})
  \/ \E in \in SearchInputs, skipCache \in BOOLEAN :
       MultilingualSimilaritySearch(in[1], in[2], in[3], TRUE, skipCache)

DeleteStep ==
  \/ \E id \in DeleteIds : DeleteVector(id)
  \/ \E i \in DOMAIN deletes : DeleteSaveOpen(i)
  \/ \E i \in DOMAIN deletes : DeleteSaveDone(i)
  \/ \E i \in DOMAIN deletes : DeleteOneOk(i)
  \/ \E i \in DOMAIN deletes : DeleteOneFail(i)

Next ==
  \/ BatchStep \/ EmbedStep \/ SearchStep \/ MultiStep \/ DeleteStep
  \/ GetVectorStats \/ ClusteringStep \/ FreeEmbeddingStep

Spec == Init /\ [][Next]_vars

\* The batch queue alone.  batchInsert has no HuggingFace fallback and no step
\* of the queue reads this.hf or the snapshot file, so one value of hf and
\* writes that succeed are enough.
InitBatch == Init /\ ~hf /\ ~writeFails

SpecBatch == InitBatch /\ [][BatchStep]_vars

\* The uuidv4 values still to draw within MaxIds, and the number of them that
\* the documents waiting for an embedding need.
IdsLeft == MaxIds - nextId

RECURSIVE Unembedded(_)
Unembedded(fs) ==
  IF fs = <<>> THEN 0
  ELSE Len(fs[1].batch) - Len(fs[1].vectors) + Unembedded(Tail(fs))

IdsNeeded == Len(batchQueue) + Unembedded(flights)

\* The batch system with batchInsert succeeding in the end: a flush fails only
\* while the identifiers left are enough for the retry, and a document is
\* enqueued only while one is left for it.
LiveAddToBatch == nextDoc < MaxLiveDocs /\ IdsNeeded < IdsLeft /\ AddToBatch

LiveFlushFails(i) ==
  /\ IdsNeeded + Len(flights[i].vectors) <= IdsLeft
  /\ BatchEmbedFail(i) \/ BatchUpsertFail(i)

\* A step in which an awaited call of a flush resolves.
FlushAdvances ==
  \E i \in DOMAIN flights :
    BatchEmbedOk(i) \/ BatchUpsertOk(i) \/ BatchSaveOpen(i) \/ BatchSaveDone(i)

BatchLiveStep ==
  \/ LiveAddToBatch
  \/ TimerTick
  \/ \E i \in DOMAIN flights : LiveFlushFails(i)
  \/ FlushAdvances

\* The timer keeps firing (setInterval, line 686), and the awaited calls of
\* batchInsert, made again and again, resolve in the end.
SpecBatchLive ==
  /\ InitBatch
  /\ [][BatchLiveStep]_vars
  /\ WF_vars(TimerTick)
  /\ SF_vars(FlushAdvances)

SpecEmbed == Init /\ [][EmbedStep]_vars

\* The records that createEmbedding(1, {}) and createEmbedding(2, {cat: 'a'})
\* leave behind (OpenAI embeddings).
TwoRecords ==
  << VectorData(1, OpenAIDim, <<"text", 1>>, EnhancedMetadata(<<>>, "openai")),
     VectorData(2, OpenAIDim, <<"text", 2>>,
                EnhancedMetadata(<< <<"cat", "a">> >>, "openai")) >>

\* The searches alone: against a remote index that holds TwoRecords, against an
\* empty local map, and against a local map that holds the record of one
\* completed createEmbedding(1) call (OpenAI embedding).
InitSearch ==
  \/ /\ index \in BOOLEAN
     /\ hf \in BOOLEAN
     /\ writeFails = FALSE
     /\ freeEmbedding = NewFreeEmbedding
     /\ localVectors = <<>>
     /\ vectorFile = FileOf(<<>>)
     /\ pinecone = IF index THEN TwoRecords ELSE <<>>
     /\ nextId = IF index THEN 2 ELSE 0
     /\ vectorCache = <<>>
     /\ batchQueue = <<>>
     /\ isProcessingBatch = FALSE
     /\ flights = <<>>
     /\ nextDoc = 0
     /\ embeds = <<>>
     /\ embedCalls = 0
     /\ semanticCache = <<>>
     /\ searches = <<>>
     /\ searchCalls = 0
     /\ deletes = <<>>
     /\ deleteCalls = 0
     /\ last = [op |-> "init", arg |-> <<>>, ret |-> <<>>]
  \/ /\ index = FALSE
     /\ hf \in BOOLEAN
     /\ writeFails = FALSE
     /\ freeEmbedding = NewFreeEmbedding
     /\ localVectors = <<VectorData(1, OpenAIDim, <<"text", 1>>, EnhancedMetadata(<<>>, "openai"))>>
     /\ vectorFile = FileOf(fromEntries(<<VectorData(1, OpenAIDim, <<"text", 1>>, EnhancedMetadata(<<>>, "openai"))>>))
     /\ pinecone = <<>>
     /\ nextId = 1
     /\ vectorCache = <<[key |-> generateCacheKey(1),
                         value |-> Result(VectorData(1, OpenAIDim, <<"text", 1>>, EnhancedMetadata(<<>>, "openai")))]>>
     /\ batchQueue = <<>>
     /\ isProcessingBatch = FALSE
     /\ flights = <<>>
     /\ nextDoc = 0
     /\ embeds = <<>>
     /\ embedCalls = 1
     /\ semanticCache = <<>>
     /\ searches = <<>>
     /\ searchCalls = 0
     /\ deletes = <<>>
     /\ deleteCalls = 0
     /\ last = [op |-> "createEmbedding", arg |-> <<1, <<>> >>,
                ret |-> <<Result(VectorData(1, OpenAIDim, <<"text", 1>>, EnhancedMetadata(<<>>, "openai")))>>]

SpecSearch == InitSearch /\ [][SearchStep]_vars

SpecMulti == InitSearch /\ [][MultiStep]_vars

\* The searches alone, from the state that SemanticCacheBound - 1 completed
\* searches with distinct keys leave behind: query "ab" without filter for
\* topK = 3, 4, ... against an empty store (no results), oldest first.
FilledSemanticCache ==
  [i \in 1..(SemanticCacheBound - 1) |->
     [key |-> SearchKey(<< <<"a", "b">> >>, <<>>, i + 2), value |-> <<>>]]

InitSemanticFull ==
  /\ index \in BOOLEAN
  /\ hf \in BOOLEAN
  /\ writeFails = FALSE
  /\ freeEmbedding = NewFreeEmbedding
  /\ localVectors = <<>>
  /\ vectorFile = FileOf(<<>>)
  /\ pinecone = <<>>
  /\ nextId = 0
  /\ vectorCache = <<>>
  /\ batchQueue = <<>>
  /\ isProcessingBatch = FALSE
  /\ flights = <<>>
  /\ nextDoc = 0
  /\ embeds = <<>>
  /\ embedCalls = 0
  /\ semanticCache = FilledSemanticCache
  /\ searches = <<>>
  /\ searchCalls = 0
  /\ deletes = <<>>
  /\ deleteCalls = 0
  /\ last = [op |-> "init", arg |-> <<>>, ret |-> <<>>]

\* Two searches with new keys and the search with the oldest key of the filled
\* cache, all with the default rerank.
FullInputs ==
  { << << <<"a", "b">> >>, 1, <<>> >>,
    << << <<"a", "b">> >>, 2, <<>> >>,
    << << <<"a", "b">> >>, 3, <<>> >> }

SemanticFullStep == SearchStepOver(FullInputs, {TRUE})

SpecSemanticFull == InitSemanticFull /\ [][SemanticFullStep]_vars

\* createEmbedding alone, from the state that 999 completed calls on distinct
\* texts leave behind (OpenAI embeddings; the texts are those after MaxTexts,
\* the ids of their records those after MaxIds).
FilledRecords ==
  [i \in 1..999 |-> VectorData(MaxIds + i, OpenAIDim, <<"text", MaxTexts + i>>,
                               EnhancedMetadata(<<>>, "openai"))]

FilledVectorCache ==
  [i \in 1..999 |->
     [key |-> generateCacheKey(MaxTexts + i), value |-> Result(FilledRecords[i])]]

InitVectorFull ==
  /\ index \in BOOLEAN
  /\ hf \in BOOLEAN
  /\ writeFails = FALSE
  /\ freeEmbedding = NewFreeEmbedding
  /\ localVectors = IF index THEN <<>> ELSE FilledRecords
  /\ vectorFile = FileOf(fromEntries(IF index THEN <<>> ELSE FilledRecords))
  /\ pinecone = IF index THEN FilledRecords ELSE <<>>
  /\ nextId = 0
  /\ vectorCache = FilledVectorCache
  /\ batchQueue = <<>>
  /\ isProcessingBatch = FALSE
  /\ flights = <<>>
  /\ nextDoc = 0
  /\ embeds = <<>>
  /\ embedCalls = 0
  /\ semanticCache = <<>>
  /\ searches = <<>>
  /\ searchCalls = 0
  /\ deletes = <<>>
  /\ deleteCalls = 0
  /\ last = [op |-> "init", arg |-> <<>>, ret |-> <<>>]

VectorFullStep == EmbedStepOver({<<>>})

SpecVectorFull == InitVectorFull /\ [][VectorFullStep]_vars

\* deleteVector alone, from the state that createEmbedding(1, {}) and
\* createEmbedding(2, {cat: 'a'}) leave behind (OpenAI embeddings), the records
\* in the local map or in the remote index.
InitDelete ==
  /\ index \in BOOLEAN
  /\ hf \in BOOLEAN
  /\ writeFails \in BOOLEAN
  /\ freeEmbedding = NewFreeEmbedding
  /\ localVectors = IF index THEN <<>> ELSE TwoRecords
  /\ vectorFile = FileOf(fromEntries(IF index THEN <<>> ELSE TwoRecords))
  /\ pinecone = IF index THEN TwoRecords ELSE <<>>
  /\ nextId = 2
  /\ vectorCache = [i \in 1..2 |-> [key |-> generateCacheKey(i), value |-> Result(TwoRecords[i])]]
  /\ batchQueue = <<>>
  /\ isProcessingBatch = FALSE
  /\ flights = <<>>
  /\ nextDoc = 0
  /\ embeds = <<>>
  /\ embedCalls = 2
  /\ semanticCache = <<>>
  /\ searches = <<>>
  /\ searchCalls = 0
  /\ deletes = <<>>
  /\ deleteCalls = 0
  /\ last = [op |-> "createEmbedding", arg |-> <<2, << <<"cat", "a">> >> >>,
             ret |-> <<Result(TwoRecords[2])>>]

SpecDelete == InitDelete /\ [][DeleteStep]_vars

\* The local mode: createEmbedding and deleteVector calls without a Pinecone
\* index or a HuggingFace client, every insert and delete followed by its write
\* of the snapshot file; at most MaxCalls calls, of which at most MaxPending
\* are suspended at a time.
InitSnapshot == Init /\ ~index /\ ~hf

Pending == Len(embeds) + Len(deletes)

MayCall == embedCalls + deleteCalls < MaxCalls /\ Pending < MaxPending

\* The ids a caller can pass to deleteVector: ids that uuidv4 has drawn, and
\* one that it never draws.
KnownIds == {id \in DeleteIds : id <= nextId} \cup {0}

SnapshotStep ==
  \/ \E text \in Texts : MayCall /\ CreateEmbedding(text, <<>>)
  \/ \E i \in DOMAIN embeds : EmbedOpenAIOk(i)
  \/ \E i \in DOMAIN embeds : EmbedOpenAIFail(i)
  \/ \E i \in DOMAIN embeds : EmbedSaveOpen(i)
  \/ \E i \in DOMAIN embeds : EmbedSaveDone(i)
  \/ \E id \in KnownIds : MayCall /\ DeleteVector(id)
  \/ \E i \in DOMAIN deletes : DeleteSaveOpen(i)
  \/ \E i \in DOMAIN deletes : DeleteSaveDone(i)

SpecSnapshot == InitSnapshot /\ [][SnapshotStep]_vars

\* createEmbedding calls on ever new texts, deleteVector calls and
\* getVectorStats calls in local mode, with or without a HuggingFace client,
\* the writes of the snapshot file succeeding.
InitStats == Init /\ ~index /\ ~writeFails

StatsStep ==
  \/ \E text \in Texts : text = embedCalls + 1 /\ MayCall /\ CreateEmbedding(text, <<>>)
  \/ \E i \in DOMAIN embeds : EmbedOpenAIOk(i)
  \/ \E i \in DOMAIN embeds : EmbedOpenAIFail(i)
  \/ \E i \in DOMAIN embeds : EmbedHFOk(i)
  \/ \E i \in DOMAIN embeds : EmbedHFFail(i)
  \/ \E i \in DOMAIN embeds : EmbedSaveOpen(i)
  \/ \E i \in DOMAIN embeds : EmbedSaveDone(i)
  \/ \E id \in KnownIds : MayCall /\ DeleteVector(id)
  \/ \E i \in DOMAIN deletes : DeleteSaveOpen(i)
  \/ \E i \in DOMAIN deletes : DeleteSaveDone(i)
  \/ GetVectorStats

SpecStats == InitStats /\ [][StatsStep]_vars

\* The FreeEmbedding instance alone.
InitFreeEmbedding == Init /\ ~index /\ ~hf /\ ~writeFails

SpecFreeEmbedding == InitFreeEmbedding /\ [][FreeEmbeddingStep]_vars

\* The clustering methods alone.  They read nothing of the service's state.
InitClustering == Init /\ ~index /\ ~hf /\ ~writeFails

SpecClustering == InitClustering /\ [][ClusteringStep]_vars

\* Searches for "ab" and deleteVector calls, from the state of InitDelete with
\* writes of the snapshot file that succeed.
InitFresh == InitDelete /\ ~writeFails

FreshInputs == { << << <<"a", "b">> >>, 2, <<>> >> }

FreshStep == SearchStepOver(FreshInputs, {TRUE}) \/ DeleteStep

SpecFresh == InitFresh /\ [][FreshStep]_vars

\* The searches alone, from the state that createEmbedding(1, {cat: 'a'}),
\* createEmbedding(2, {cat: 'b'}) and createEmbedding(3, {cat: 'a'}) leave
\* behind (OpenAI embeddings), the records in the local map or in the remote
\* index.
ThreeRecords ==
  [i \in 1..3 |-> VectorData(i, OpenAIDim, <<"text", i>>,
       EnhancedMetadata(<< <<"cat", IF i = 2 THEN "b" ELSE "a">> >>, "openai"))]

InitLocal ==
  /\ index \in BOOLEAN
  /\ hf \in BOOLEAN
  /\ writeFails = FALSE
  /\ freeEmbedding = NewFreeEmbedding
  /\ localVectors = IF index THEN <<>> ELSE ThreeRecords
  /\ vectorFile = FileOf(fromEntries(IF index THEN <<>> ELSE ThreeRecords))
  /\ pinecone = IF index THEN ThreeRecords ELSE <<>>
  /\ nextId = 3
  /\ vectorCache = [i \in 1..3 |-> [key |-> generateCacheKey(i), value |-> Result(ThreeRecords[i])]]
  /\ batchQueue = <<>>
  /\ isProcessingBatch = FALSE
  /\ flights = <<>>
  /\ nextDoc = 0
  /\ embeds = <<>>
  /\ embedCalls = 3
  /\ semanticCache = <<>>
  /\ searches = <<>>
  /\ searchCalls = 0
  /\ deletes = <<>>
  /\ deleteCalls = 0
  /\ last = [op |-> "createEmbedding", arg |-> <<3, << <<"cat", "a">> >> >>,
             ret |-> <<Result(ThreeRecords[3])>>]

\* Searches for "ab": topK below and beyond the number of records, topK 0 and
\* negative, a filter that two records pass and one that none passes.
LocalInputs ==
  { << << <<"a", "b">> >>, 2, <<>> >>,
    << << <<"a", "b">> >>, 5, <<>> >>,
    << << <<"a", "b">> >>, 0, <<>> >>,
    << << <<"a", "b">> >>, -1, <<>> >>,
    << << <<"a", "b">> >>, 2, << <<"cat", "a">> >> >>,
    << << <<"a", "b">> >>, 2, << <<"cat", "z">> >> >> }

LocalStep == SearchStepOver(LocalInputs, BOOLEAN)

SpecLocal == InitLocal /\ [][LocalStep]_vars

\* ------------------------------------------------------------------ claims
\* The documents that have a record in a store.
StoredDocs(store) == {d \in 1..nextDoc : \E i \in DOMAIN store : store[i].src = <<"doc", d>>}

DocsOf(records) == [i \in DOMAIN records |-> records[i].src[2]]

Ascending(s) == \A i \in DOMAIN s : i + 1 \in DOMAIN s => s[i] < s[i + 1]

\* A flush ended in this step (its flight is gone): last'.arg is its batch.
FlushEnds(op) == last'.op = op /\ Len(flights') < Len(flights)

\* C1: dimension invariant: all records of the local store have vectors of the
\* same length (an insert of another length is rejected).
C1_DimensionInvariant ==
  \A i, j \in DOMAIN localVectors : localVectors[i].len = localVectors[j].len

\* C2: single-flight flush: at most one processBatch flush is in progress at any
\* time, and isProcessingBatch is set exactly while one is.
C2_SingleFlight ==
  /\ Len(flights) <= 1
  /\ isProcessingBatch <=> Len(flights) = 1

\* A size trigger arrived while a flush was in progress and started nothing.
C2_Witness ==
  /\ last.op = "addToBatch"
  /\ Len(flights) = 1
  /\ Len(batchQueue) >= BatchThreshold

\* C3: when a flush fails, its whole batch is put back at the front of the queue,
\* ahead of the documents enqueued during the flush, and the flag is cleared so
\* that the next trigger takes the batch up again.
C3_RequeueAtFront ==
  [][FlushEnds("flushFail") =>
       /\ batchQueue' = last'.arg \o batchQueue
       /\ ~isProcessingBatch']_vars

\* A flush has just failed with documents enqueued behind its batch.
C3_Witness ==
  /\ last.op = "flushFail"
  /\ Len(batchQueue) > Len(last.arg)
  /\ SubSeq(batchQueue, 1, Len(last.arg)) = last.arg

\* C4: a flush is atomic: while it runs the store holds none or all of its
\* documents, a step of the flush that changes the local store appends exactly
\* the batch's records in batch order, a failed flush leaves none of its
\* documents stored and a successful one all of them.
C4_FlushAtomic ==
  [][/\ \A i \in DOMAIN flights' :
          LET b == Range(flights'[i].batch)
              in == b \cap StoredDocs(localVectors' \o pinecone')
          IN in = {} \/ in = b
     /\ (last'.op = "batchEmbed" /\ localVectors' # localVectors) =>
          /\ Len(localVectors') = Len(localVectors) + Len(last'.arg)
          /\ SubSeq(localVectors', 1, Len(localVectors)) = localVectors
          /\ DocsOf(SubSeq(localVectors', Len(localVectors) + 1, Len(localVectors'))) = last'.arg
     /\ FlushEnds("flushFail") =>
          /\ Range(last'.arg) \cap StoredDocs(localVectors' \o pinecone') = {}
          /\ localVectors' = localVectors /\ pinecone' = pinecone
     /\ FlushEnds("flushOk") =>
          Range(last'.arg) \subseteq StoredDocs(localVectors' \o pinecone')]_vars

\* A flush of several documents failed after embeddings had been obtained.
C4_Witness ==
  /\ last.op = "flushFail"
  /\ Len(last.arg) >= 2
  /\ nextId > Cardinality(StoredDocs(localVectors \o pinecone))

\* C5: the two triggers act on their own: addToBatch starts a flush when it
\* brings the queue to the threshold, a timer tick starts one whenever the queue
\* is non-empty; either does nothing more only when a flush is in progress (or,
\* for the tick, the queue is empty).
C5_IndependentTriggers ==
  [][/\ (last'.op = "addToBatch" /\ nextDoc' = nextDoc + 1) =>
          LET q == Append(batchQueue, nextDoc') IN
            IF Len(q) >= BatchThreshold /\ ~isProcessingBatch
              THEN /\ isProcessingBatch' /\ batchQueue' = <<>>
                   /\ flights' = Append(flights, [batch |-> q, vectors |-> <<>>,
                                                       data |-> <<>>, pc |-> "embed"])
              ELSE /\ batchQueue' = q
                   /\ UNCHANGED <<isProcessingBatch, flights>>
     /\ (last'.op = "tick" /\ nextDoc' = nextDoc) =>
          IF batchQueue # <<>> /\ ~isProcessingBatch
            THEN /\ isProcessingBatch' /\ batchQueue' = <<>>
                 /\ flights' = Append(flights, [batch |-> batchQueue, vectors |-> <<>>,
                                                     data |-> <<>>, pc |-> "embed"])
            ELSE UNCHANGED <<batchQueue, isProcessingBatch, flights>>]_vars

\* The size trigger has just started a flush of a full queue.
C5_Witness ==
  /\ last.op = "addToBatch"
  /\ batchQueue = <<>>
  /\ Len(flights) = 1
  /\ Len(flights[1].batch) = BatchThreshold
  /\ flights[1].vectors = <<>>

\* C6: FIFO: the documents not yet inserted (the batch being flushed, then the
\* queue) are always in the order of their enqueueing, and the records a flush
\* builds follow the order of its batch.
C6_Fifo ==
  /\ \A i \in DOMAIN flights :
       /\ Ascending(flights[i].batch \o batchQueue)
       /\ DocsOf(flights[i].vectors) = SubSeq(flights[i].batch, 1, Len(flights[i].vectors))
  /\ Ascending(batchQueue)

\* A flush of several documents is under way after an earlier flush failed
\* midway, with documents waiting behind it.
C6_Witness ==
  /\ Len(flights) = 1
  /\ Len(flights[1].batch) >= 2
  /\ batchQueue # <<>>
  /\ nextId > Len(flights[1].vectors) + Cardinality(StoredDocs(localVectors \o pinecone))

ScoreDescending(list) ==
  \A i \in DOMAIN list : i + 1 \in DOMAIN list => list[i].score >= list[i + 1].score

BlendedDescending(list) ==
  \A i \in DOMAIN list : i + 1 \in DOMAIN list => ~BlendedBefore(list[i + 1], list[i])

\* C7 as stated: every list a search returns is in descending order of score.
C7_RankOrdering ==
  last.op \in {"search", "searchHit"} => ScoreDescending(last.ret)

\* C7 amended: a list computed with rerank enabled is in descending order of
\* the blended score 0.7 * score + 0.3 * semanticRelevance; a list computed
\* with rerank disabled is in descending order of score.
C7_RerankOrdering ==
  last.op = "search" =>
    IF last.arg[4] THEN BlendedDescending(last.ret) ELSE ScoreDescending(last.ret)

\* A reranked list of two results whose scores ascend.
C7_Witness ==
  /\ last.op = "search"
  /\ last.arg[4]
  /\ Len(last.ret) = 2
  /\ last.ret[1].score < last.ret[2].score

\* C8: a search whose key is in the search-result cache, made without
\* skipCache, returns the cached list at once: no call is suspended (no
\* embedding is requested, no store is scanned) and the cache is left alone.
C8_CacheHit ==
  [][(last'.op \in {"searchCall", "searchHit"} /\ searchCalls' = searchCalls + 1) =>
       LET a == last'.arg
           key == SearchKey(a[1], a[3], a[2])
       IN (MapHas(semanticCache, key) /\ ~a[5]) =>
            /\ last'.op = "searchHit"
            /\ last'.ret = MapGet(semanticCache, key)
            /\ searches' = searches
            /\ semanticCache' = semanticCache]_vars

\* A search has been answered from the cache with a non-empty list.
C8_Witness ==
  /\ last.op = "searchHit"
  /\ last.ret # <<>>

\* C9: the search-result cache is bounded: it never holds more than 1000
\* entries; a completing search that adds a new key to a cache of 1000 evicts
\* the 500 oldest entries and keeps the others, the new one last; otherwise it
\* adds or replaces its own entry only.
C9_SemanticCacheBounded ==
  [][/\ Len(semanticCache') <= 1000
     /\ (last'.op = "search" /\ Len(searches') < Len(searches)) =>
          LET key == SearchKey(last'.arg[1], last'.arg[3], last'.arg[2])
              entry == [key |-> key, value |-> last'.ret]
          IN IF MapHas(semanticCache, key)
               THEN /\ Len(semanticCache') = Len(semanticCache)
                    /\ \A i \in DOMAIN semanticCache :
                         semanticCache'[i] = IF semanticCache[i].key = key
                                               THEN entry ELSE semanticCache[i]
               ELSE IF Len(semanticCache) = 1000
                 THEN semanticCache' = SubSeq(semanticCache, 501, 1000) \o <<entry>>
                 ELSE semanticCache' = Append(semanticCache, entry)]_vars

\* A search has just pushed the cache beyond 1000 entries: 501 are left, the
\* entry of that search last.
C9_Witness ==
  /\ last.op = "search"
  /\ Len(semanticCache) = 501
  /\ semanticCache[501].key = SearchKey(last.arg[1], last.arg[3], last.arg[2])

\* C10: the embedding cache never holds more than 1000 entries.
C10_VectorCacheBounded == Len(vectorCache) <= 1000

Ids(store) == {store[i].id : i \in DOMAIN store}

\* The metadata object `meta` carries every key of `passed` with its value.
Carries(meta, passed) ==
  \A i \in DOMAIN passed : MetaGet(meta, passed[i][1]) = passed[i][2]

\* C11: every createEmbedding(text, metadata) call that returns has inserted a
\* record: the store holds a record under the returned id that carries the
\* metadata of this call, the id was not in the store before, and the store
\* has grown by one record (checked on the step that inserts and, for a call
\* that returns without ever waiting, on its only step).
C11_EmbedInserts ==
  [][LET before == localVectors \o pinecone
         after == localVectors' \o pinecone'
         grown == /\ Len(after) = Len(before) + 1
                  /\ SubSeq(after, 1, Len(before)) = before
                  /\ after[Len(after)].id \notin Ids(before)
     IN /\ (last'.op = "createEmbedding" /\ embedCalls' = embedCalls) =>
             /\ \E i \in DOMAIN after :
                  /\ after[i].id = last'.ret[1].id
                  /\ after[i].metadata = last'.ret[1].metadata
                  /\ Carries(after[i].metadata, last'.arg[2])
             /\ index => grown /\ after[Len(after)].id = last'.ret[1].id
        /\ (last'.op = "embedStore" /\ ~index) => grown
        /\ (last'.op = "createEmbedding" /\ embedCalls' = embedCalls + 1) =>
             /\ grown
             /\ after[Len(after)].id = last'.ret[1].id
             /\ Carries(after[Len(after)].metadata, last'.arg[2])]_vars

\* A deleteVector call took the step that removes its record, if any: its only
\* synchronous step in local mode, the resolution of index.deleteOne otherwise.
DeleteActs ==
  \/ last'.op = "deleteCall" /\ ~index
  \/ last'.op = "deleteVector" /\ index

\* C12: deleteVector(id) returns a boolean: true when a record with that id was
\* there to remove, false when none was (the record is removed on the
\* returning step when the store is the remote index).
C12_DeleteReturnsBool ==
  [][/\ last'.op = "deleteVector" => last'.ret[1] = "boolean"
     /\ (last'.op = "deleteVector" /\ index) =>
          last'.ret = <<"boolean", Found(pinecone, last'.arg[1])>>]_vars

\* C13 as stated: a deleteVector call removes the record with its id and no
\* other, leaves the store alone when there is none, and never throws for an
\* id that is not in the store.
C13_DeleteIdempotent ==
  [][/\ DeleteActs =>
          LET before == localVectors \o pinecone
              after == localVectors' \o pinecone'
          IN /\ Ids(after) = Ids(before) \ {last'.arg[1]}
             /\ \A i \in DOMAIN before : before[i].id # last'.arg[1] =>
                  \E j \in DOMAIN after : after[j] = before[i]
             /\ last'.arg[1] \notin Ids(before) => after = before
     /\ last'.op = "deleteThrow" => last'.arg[1] \in Ids(localVectors \o pinecone)]_vars

\* C13 amended: the same effect on the store; a call throws only when
\* index.deleteOne rejects, and then the store is left as it was; in local
\* mode no call throws.
C13_DeleteIdempotentLocal ==
  [][/\ DeleteActs =>
          LET before == localVectors \o pinecone
              after == localVectors' \o pinecone'
          IN /\ Ids(after) = Ids(before) \ {last'.arg[1]}
             /\ \A i \in DOMAIN before : before[i].id # last'.arg[1] =>
                  \E j \in DOMAIN after : after[j] = before[i]
             /\ last'.arg[1] \notin Ids(before) => after = before
     /\ ~DeleteActs => (localVectors' = localVectors /\ pinecone' = pinecone)
     /\ last'.op = "deleteThrow" => index]_vars

\* After a record has been deleted, a deleteVector call for an id that was
\* never in the store has returned: the other record is still there.
C13_Witness ==
  /\ last.op = "deleteVector"
  /\ deletes = <<>>
  /\ last.arg[1] \notin Ids(TwoRecords)
  /\ Len(localVectors \o pinecone) = 1

Matching(store, filter) == {store[i].id : i \in {j \in DOMAIN store : Passes(store[j], filter)}}

\* The i-th suspended search took the step that scans the local map, and the
\* scan gave a list.
ScanOf(i) ==
  /\ searches[i].pc \in {"openai", "hf"}
  /\ last'.op = "searchScan"
  /\ Len(searches') = Len(searches)
  /\ searches'[i].pc = "local"

\* The i-th suspended search took that step, and the scan threw a TypeError.
ScanThrows(i) ==
  /\ searches[i].pc \in {"openai", "hf"}
  /\ last'.op = "searchThrow"
  /\ last'.ret = <<"TypeError">>
  /\ searches' = RemoveAt(searches, i)

\* C14: filtered local search: the scan of the local map gives a list of
\* records that all pass the filter, and every record that passes it is a
\* candidate: with topK at least the number of passing records (with an empty
\* filter: of stored records) the list holds exactly the passing records.
C14_FilteredSearch ==
  [][\A i \in DOMAIN searches :
       /\ ScanOf(i) =>
            /\ Ids(searches'[i].results) \subseteq Matching(localVectors, searches[i].filter)
            /\ searches[i].topK >= Cardinality(Matching(localVectors, searches[i].filter)) =>
                 Ids(searches'[i].results) = Matching(localVectors, searches[i].filter)
       /\ ~ScanThrows(i)]_vars

\* The candidates a completed search ranked, in their processed form.
Candidates == [i \in DOMAIN last.arg[5] |-> Processed(last.arg[5][i], last.arg[1])]

C16_RerankToggle ==
  (last.op \in {"search", "searchHit"} /\ ~last.arg[4]) => ScoreDescending(last.ret)

\* C17: a search called with options.skipCache = true is never answered from
\* the search-result cache, through similaritySearch or through
\* multilingualSimilaritySearch: the call goes on to compute its list.
C17_SkipCache ==
  [][(/\ last'.op \in {"searchCall", "searchHit", "multilingualCall", "multilingualHit"}
      /\ searchCalls' = searchCalls + 1
      /\ last'.arg[5]) =>
       /\ last'.op \in {"searchCall", "multilingualCall"}
       /\ Len(searches') = Len(searches) + 1]_vars

\* C18: a search with topK <= 0 returns the empty list whatever the store
\* holds: the list it returns is empty, and its scan of the local map does not
\* throw.
C18_NonPositiveTopK ==
  [][/\ (last'.op \in {"search", "searchHit"} /\ last'.arg[2] <= 0) => last'.ret = <<>>
     /\ \A i \in DOMAIN searches : searches[i].topK <= 0 => ~ScanThrows(i)]_vars

\* C19: for topK > 0 the scan of the local map does not throw and gives
\* exactly min(topK, number of records passing the filter) results with
\* distinct ids: all passing records when topK is beyond their number, none
\* when the map is empty or no record passes.
C19_LocalCount ==
  [][\A i \in DOMAIN searches : searches[i].topK > 0 =>
       /\ ~ScanThrows(i)
       /\ ScanOf(i) =>
            LET results == searches'[i].results
                matching == Matching(localVectors, searches[i].filter)
            IN /\ Len(results) = Min(searches[i].topK, Cardinality(matching))
               /\ Cardinality(Ids(results)) = Len(results)
               /\ Ids(results) \subseteq matching]_vars

\* The example of C20: the cosine similarity, in tenths, of the query vector
\* [1, 0] with the vectors [1, 0], [0, 1] and [0.9, 0.1] of the records 1, 2, 3.
ExampleScore(id) == CASE id = 1 -> 10 [] id = 2 -> 0 [] OTHER -> 9

\* C20: for topK > 0 the scan of the local map gives the topK best records:
\* each with its cosine score, best first, none scoring below a passing record
\* that is left out, and a record whose vector equals the query vector first
\* with score 1.
C20_TopKBest ==
  [][\A i \in DOMAIN searches : (searches[i].topK > 0 /\ (ScanOf(i) \/ ScanThrows(i))) =>
       /\ ScanOf(i)
       /\ LET results == searches'[i].results
              matching == Matching(localVectors, searches[i].filter)
          IN /\ ScoreDescending(results)
             /\ \A k \in DOMAIN results :
                  /\ results[k].score = ExampleScore(results[k].id)
                  /\ \A id \in matching \ Ids(results) : results[k].score >= ExampleScore(id)
             /\ 1 \in matching => (results # <<>> /\ results[1].id = 1 /\ results[1].score = 10)]_vars

\* Results of equal score come in the order their records were inserted: ids
\* are drawn in insertion order.
TiesInInsertionOrder(list) ==
  \A k, l \in DOMAIN list :
    (k < l /\ list[k].score = list[l].score) => list[k].id < list[l].id

\* C21: a search ranks by descending score and, among records of equal score,
\* puts the record inserted earlier first: the scan of the local map gives such
\* a list, and so does every search that returns.
C21_TieOrder ==
  [][/\ \A i \in DOMAIN searches :
          /\ ~ScanThrows(i)
          /\ ScanOf(i) => (ScoreDescending(searches'[i].results)
                             /\ TiesInInsertionOrder(searches'[i].results))
     /\ last'.op = "search" => TiesInInsertionOrder(last'.ret)]_vars

\* The i-th suspended createEmbedding call waits for an embedding provider and
\* the step ends it by throwing.
EmbedProviderThrows(i) ==
  /\ embeds[i].pc \in {"openai", "hf"}
  /\ last'.op = "createEmbeddingThrow"
  /\ embeds' = RemoveAt(embeds, i)

\* C22: a failure of an embedding provider never ends createEmbedding or
\* similaritySearch by throwing, with or without a HuggingFace client: the
\* call goes on with an embedding.
C22_ProviderFallback ==
  [][/\ \A i \in DOMAIN embeds : ~EmbedProviderThrows(i)
     /\ ~(last'.op = "searchThrow" /\ last'.ret \in {<<"openai">>, <<"huggingface">>})]_vars

\* The i-th suspended createEmbedding call takes the step that adds its record
\* to the local map.  The suspended calls are listed in the order they were
\* made.
EmbedInsertsLocal(i) ==
  /\ ~index
  /\ embeds[i].pc \in {"openai", "hf"}
  /\ last'.op = "embedStore"
  /\ Len(embeds') = Len(embeds)
  /\ embeds'[i].pc = "save"

\* C23: inserts reach the local map in call order: when a createEmbedding call
\* adds its record, no call made after it has added its record already.
C23_CallOrder ==
  [][\A i \in DOMAIN embeds : EmbedInsertsLocal(i) =>
       \A j \in DOMAIN embeds : j > i => embeds[j].pc \notin {"save", "write"}]_vars

\* `data` is the snapshot of the map `store`: the records of the map, each
\* under its id, in the order of the map.
FullSnapshot(data, store) ==
  /\ Len(data) = Len(store)
  /\ \A k \in DOMAIN data : data[k].key = store[k].id /\ data[k].value = store[k]

\* No createEmbedding, deleteVector or batch flush is in progress, so every
\* snapshot write that was started has ended.
Quiescent == embeds = <<>> /\ deletes = <<>> /\ flights = <<>>

\* C24: in local mode, when no write of the snapshot file fails and all inserts
\* and deletes with their writes have ended, the file holds the snapshot of
\* the map, and loading it gives the map again.
C24_SnapshotCatchesUp ==
  (~index /\ ~writeFails /\ Quiescent) =>
    /\ vectorFile.whole
    /\ FullSnapshot(vectorFile.entries, localVectors)
    /\ LoadedMap(vectorFile.entries) = localVectors

\* The step ends the i-th suspended createEmbedding call, which waits for its
\* write of the snapshot file, and leaves the file as it was: so does every
\* write that fails.
EmbedWriteFails(i) ==
  /\ embeds[i].pc \in {"save", "write"}
  /\ embeds' = RemoveAt(embeds, i)
  /\ vectorFile' = vectorFile

\* The same for the i-th suspended deleteVector call.
DeleteWriteFails(i) ==
  /\ deletes[i].pc \in {"save", "write"}
  /\ deletes' = RemoveAt(deletes, i)
  /\ vectorFile' = vectorFile

\* The step ends a write of `data` and changes the file, which held no longer
\* text than that of `data`.
WriteLands(pc, data) ==
  /\ pc = "write"
  /\ vectorFile' # vectorFile
  /\ vectorFile.size <= Len(data)

\* C25: in local mode a failure of a snapshot write is not surfaced: the
\* createEmbedding or deleteVector call returns as usual and the map keeps the
\* insert or the delete; every snapshot write is given the full map of the
\* moment saveLocalVectors is called, and a write that lands leaves that full
\* map in the file.
C25_WriteFailureSwallowed ==
  [][~index =>
       /\ \A i \in DOMAIN embeds :
            /\ EmbedWriteFails(i) =>
                 /\ last'.op = "createEmbedding"
                 /\ last'.ret = <<Result(embeds[i].rec[1])>>
                 /\ localVectors' = localVectors
            /\ EmbedInsertsLocal(i) =>
                 /\ Found(localVectors', embeds'[i].rec[1].id)
                 /\ FullSnapshot(embeds'[i].data, localVectors')
            /\ (WriteLands(embeds[i].pc, embeds[i].data) /\ embeds' = RemoveAt(embeds, i)) =>
                 (vectorFile'.whole /\ vectorFile'.entries = embeds[i].data)
       /\ \A i \in DOMAIN deletes :
            /\ DeleteWriteFails(i) =>
                 /\ last'.op = "deleteVector"
                 /\ last'.ret = <<"undefined">>
                 /\ localVectors' = localVectors
                 /\ ~Found(localVectors', deletes[i].id)
            /\ (WriteLands(deletes[i].pc, deletes[i].data) /\ deletes' = RemoveAt(deletes, i)) =>
                 (vectorFile'.whole /\ vectorFile'.entries = deletes[i].data)
       /\ last'.op = "deleteCall" =>
            /\ ~Found(localVectors', last'.arg[1])
            /\ FullSnapshot(deletes'[Len(deletes')].data, localVectors')]_vars

\* The only call made, a createEmbedding call, has returned its result and its
\* record is in the map, while the snapshot file was never written: the write
\* failed when it opened the file.
C25_Witness ==
  /\ ~index
  /\ writeFails
  /\ Quiescent
  /\ embedCalls = 1
  /\ deleteCalls = 0
  /\ last.op = "createEmbedding"
  /\ Len(localVectors) = 1
  /\ last.ret = <<Result(localVectors[1])>>
  /\ vectorFile = FileOf(<<>>)

\* C29: in local mode getVectorStats returns the number of records the map
\* holds at the call, whatever inserts and deletes came before, the dimension
\* 0 for an empty map and otherwise the vector length of a stored record (the
\* one that is first in the map), and the index fullness 0.
C29_LocalStats ==
  [][(last'.op = "getVectorStats" /\ ~index) =>
       LET stats == last'.ret[1] IN
         /\ stats.totalVectors = Cardinality(Ids(localVectors))
         /\ localVectors = <<>> => stats.dimension = 0
         /\ localVectors # <<>> =>
              /\ stats.dimension \in {localVectors[i].len : i \in DOMAIN localVectors}
              /\ stats.dimension = localVectors[1].len
         /\ stats.indexFullness = 0]_vars

\* getVectorStats has answered for the one record that is left of two, after
\* a delete.
C29_Witness ==
  /\ ~index
  /\ last.op = "getVectorStats"
  /\ last.ret[1].totalVectors = 1
  /\ nextId = 2
  /\ deleteCalls > 0
  /\ Len(localVectors) = 1

\* C30: a search that starts after deleteVector(id) has completed does not
\* return the record with that id, also when the same search was answered
\* before the delete: every record a search returns is in the store when the
\* search is answered.
C30_Freshness ==
  [][last'.op \in {"search", "searchHit"} =>
       Ids(last'.ret) \subseteq Ids(localVectors \o pinecone)]_vars

\* The clusters of a labelled list.
ClustersOf(out) == {out[i].cluster : i \in DOMAIN out}

\* C26: k-means with maxIterations = N makes at most N passes and returns one
\* entry for every input vector, in input order, each with a cluster index:
\* an index of 0..k-1, or the vector's own position when there are fewer
\* vectors than k.  The visualization service's k-means, whose limit is fixed
\* at 100, does the same within 100 passes.
C26_KMeansBounded ==
  [][/\ last'.op = "kmeans" =>
          LET points == last'.arg[1]
              k == last'.arg[2]
              r == last'.ret[1]
          IN /\ r.passes <= last'.arg[3]
             /\ Len(r.out) = Len(points)
             /\ \A i \in DOMAIN points :
                  /\ r.out[i].vector = points[i]
                  /\ IF Len(points) < k THEN r.out[i].cluster = i - 1
                     ELSE r.out[i].cluster \in 0..(k - 1)
     /\ last'.op = "vizKmeans" =>
          LET points == last'.arg[1]
              r == last'.ret[1]
          IN /\ ~r.threw
             /\ r.passes <= VizMaxIterations
             /\ Len(r.out) = Len(points)
             /\ \A i \in DOMAIN points :
                  /\ r.out[i].vector = points[i]
                  /\ r.out[i].cluster \in 0..(last'.arg[2] - 1)]_vars

\* A k-means call on at least k vectors that used all the passes it was given
\* and put the vectors into more than one cluster.
C26_Witness ==
  /\ last.op = "kmeans"
  /\ Len(last.arg[1]) >= last.arg[2]
  /\ last.arg[3] >= 2
  /\ last.ret[1].passes = last.arg[3]
  /\ Cardinality(ClustersOf(last.ret[1].out)) >= 2

\* C27: clustering and search do not throw on 0 or 1 vectors: a local search
\* over a store of at most one record ends its scan without throwing, k-means
\* labels the vectors it is given and hierarchical clustering returns no
\* cluster for no vector and one cluster for one vector.
C27_DegenerateInput ==
  [][/\ \A i \in DOMAIN searches : Len(localVectors) <= 1 => ~ScanThrows(i)
     /\ (last'.op = "kmeans" /\ Len(last'.arg[1]) <= 1) =>
          Len(last'.ret[1].out) = Len(last'.arg[1])
     /\ (last'.op = "hierarchical" /\ Len(last'.arg[1]) <= 1) =>
          /\ Len(last'.ret[1].clusters) = Len(last'.arg[1])
          /\ \A c \in DOMAIN last'.ret[1].clusters : last'.ret[1].clusters[c].members = <<1>>]_vars

C31_BatchLiveness ==
  /\ [](flights = <<>> => ~isProcessingBatch)
  /\ \A d \in 1..MaxLiveDocs :
       (nextDoc >= d) ~> (d \in StoredDocs(localVectors \o pinecone))

\* A flush has succeeded after an earlier flush failed with embeddings made,
\* and every document enqueued is stored.
C31_Witness ==
  /\ last.op = "flushOk"
  /\ nextDoc >= 2
  /\ StoredDocs(localVectors \o pinecone) = 1..nextDoc
  /\ nextId > nextDoc

\* The number of places of s that hold d.
CountIn(s, d) == Cardinality({i \in DOMAIN s : s[i] = d})

\* The documents in the batches being flushed.
FlightDocs == UNION {Range(flights[i].batch) : i \in DOMAIN flights}

\* C32: batch conservation: every document passed to addToBatch is once in
\* the queue, or in the batch being flushed, or once in the store: never in
\* none of them, never in the queue together with the batch or the store, and
\* never twice in the queue or the store.
C32_Conservation ==
  \A d \in 1..nextDoc :
    LET queued == CountIn(batchQueue, d)
        stored == CountIn(DocsOf(localVectors \o pinecone), d)
        flushing == IF d \in FlightDocs /\ stored = 0 THEN 1 ELSE 0
    IN /\ queued + flushing + stored = 1
       /\ d \in FlightDocs => queued = 0

\* A flush has just failed and put its batch back while earlier documents are
\* in the store.
C32_Witness ==
  /\ last.op = "flushFail"
  /\ batchQueue # <<>>
  /\ StoredDocs(localVectors \o pinecone) # {}

\* C33: k-means initialisation samples without replacement: with at least k
\* vectors, no input vector is drawn for two of the k initial centroids.
C33_DistinctCentroids ==
  [][(last'.op = "kmeans" /\ Len(last'.arg[1]) >= last'.arg[2]) =>
       \A i, j \in DOMAIN last'.arg[4] :
         i # j => last'.arg[4][i] # last'.arg[4][j]]_vars

\* C34: with fewer vectors than k, k-means makes no pass and tags vector i
\* with i (from 0): the tags are pairwise distinct.
C34_FewerVectorsThanK ==
  [][(last'.op = "kmeans" /\ Len(last'.arg[1]) < last'.arg[2]) =>
       LET out == last'.ret[1].out
       IN /\ last'.ret[1].passes = 0
          /\ Len(out) = Len(last'.arg[1])
          /\ \A i \in DOMAIN out : out[i].cluster = i - 1
          /\ \A i, j \in DOMAIN out : i # j => out[i].cluster # out[j].cluster]_vars

\* k-means was asked for three clusters of two vectors, with passes allowed.
C34_Witness ==
  /\ last.op = "kmeans"
  /\ Len(last.arg[1]) = 2
  /\ last.arg[2] = 3
  /\ last.arg[3] >= 1
  /\ ClustersOf(last.ret[1].out) = {0, 1}

\* The squared distance of v to the centroid a is at most that to b.
NotFarther(v, a, b) ==
  (v * a[2] - a[1]) * (v * a[2] - a[1]) * b[2] * b[2]
    <= (v * b[2] - b[1]) * (v * b[2] - b[1]) * a[2] * a[2]

\* The centroid of index c (from 0) is the nearest of v, the lowest index
\* winning ties.
NearestLowest(v, centroids, c) ==
  /\ c + 1 \in DOMAIN centroids
  /\ \A l \in DOMAIN centroids : NotFarther(v, centroids[c + 1], centroids[l])
  /\ \A l \in 1..c : ~NotFarther(v, centroids[l], centroids[c + 1])

\* The centroids `after` follow from `before` by line 53-67 under the
\* assignments: the mean of the assigned vectors, or the same position.
CentroidsFollow(points, assignments, before, after) ==
  /\ DOMAIN after = DOMAIN before
  /\ \A j \in DOMAIN before :
       LET members == {i \in DOMAIN points : assignments[i] = j - 1}
       IN IF members = {} THEN after[j] = before[j]
          ELSE after[j][1] * Cardinality(members) = SumOver(points, members) * after[j][2]

\* C35: in every pass each vector is assigned to a centroid at the least
\* distance, the lowest index winning ties; the centroids of the next pass are
\* the means of the assigned vectors, a centroid without vectors staying where
\* it was; and when the loop leaves early every vector is tagged with the
\* nearest of the final centroids.
C35_AssignmentStep ==
  [][(last'.op = "kmeans" /\ Len(last'.arg[1]) >= last'.arg[2]) =>
       LET points == last'.arg[1]
           r == last'.ret[1]
       IN /\ Len(r.trace) = r.passes
          /\ \A t \in DOMAIN r.trace :
               /\ \A i \in DOMAIN points :
                    NearestLowest(points[i], r.trace[t].centroids, r.trace[t].assignments[i])
               /\ t < Len(r.trace) =>
                    CentroidsFollow(points, r.trace[t].assignments, r.trace[t].centroids,
                                    r.trace[t + 1].centroids)
               /\ (t = Len(r.trace) /\ ~r.stable) =>
                    CentroidsFollow(points, r.trace[t].assignments, r.trace[t].centroids,
                                    r.centroids)
               /\ (t = Len(r.trace) /\ r.stable) => r.centroids = r.trace[t].centroids
          /\ r.stable =>
               \A i \in DOMAIN points :
                 NearestLowest(points[i], r.centroids, r.out[i].cluster)]_vars

\* A k-means call that left early after a pass that moved a centroid, with a
\* centroid that has no vector.
C35_Witness ==
  /\ last.op = "kmeans"
  /\ Len(last.arg[1]) >= last.arg[2]
  /\ last.ret[1].stable
  /\ last.ret[1].passes >= 2
  /\ Cardinality(ClustersOf(last.ret[1].out)) < last.arg[2]

\* The pairs of clusters, and the similarity of the centroids of a pair.
PairsOf(clusters) == {q \in (DOMAIN clusters) \X (DOMAIN clusters) : q[1] < q[2]}

PairSimilarity(clusters, q) ==
  cosineSimilarity(Direction(clusters[q[1]].centroid), Direction(clusters[q[2]].centroid))

\* The similarity s is a number at or above the threshold.
AtOrAbove(s, threshold) == ~s.nan /\ ~Greater(ThresholdValue(threshold), s)

\* Every merge of the call took a pair of the highest similarity, which was
\* at or above the threshold.
MergesHighest(r, threshold) ==
  \A t \in DOMAIN r.trace :
    LET cs == r.trace[t].clusters
        sim == PairSimilarity(cs, r.trace[t].pair)
    IN /\ r.trace[t].pair \in PairsOf(cs)
       /\ AtOrAbove(sim, threshold)
       /\ \A q \in PairsOf(cs) : ~Greater(PairSimilarity(cs, q), sim)

\* The call stopped with one cluster or with no pair at or above the threshold.
StoppedRight(r, threshold) ==
  \/ Len(r.clusters) <= 1
  \/ \A q \in PairsOf(r.clusters) : ~AtOrAbove(PairSimilarity(r.clusters, q), threshold)

RECURSIVE MembersOf(_)
MembersOf(clusters) ==
  IF clusters = <<>> THEN <<>> ELSE clusters[1].members \o MembersOf(Tail(clusters))

\* The clusters hold every position of the n inputs once, and every centroid
\* is the mean of the cluster's vectors.
IsPartition(points, clusters) ==
  LET all == MembersOf(clusters)
  IN /\ Len(all) = Len(points)
     /\ Range(all) = DOMAIN points
     /\ \A c \in DOMAIN clusters :
          LET m == clusters[c].members
              centroid == clusters[c].centroid
          IN /\ m # <<>>
             /\ centroid[3] > 0
             /\ centroid[1] * Len(m)
                  = SumOver([i \in DOMAIN points |-> points[i][1]], Range(m)) * centroid[3]
             /\ centroid[2] * Len(m)
                  = SumOver([i \in DOMAIN points |-> points[i][2]], Range(m)) * centroid[3]

\* C37: hierarchical clustering keeps a partition: before every merge and in
\* the result every input vector is in exactly one cluster, every merge makes
\* the clusters one fewer, and every centroid is the mean of all the vectors
\* of its cluster.
C37_Partition ==
  [][last'.op = "hierarchical" =>
       LET points == last'.arg[1]
           r == last'.ret[1]
           after(t) == IF t < Len(r.trace) THEN r.trace[t + 1].clusters ELSE r.clusters
       IN /\ IsPartition(points, r.clusters)
          /\ \A t \in DOMAIN r.trace :
               /\ IsPartition(points, r.trace[t].clusters)
               /\ Len(after(t)) = Len(r.trace[t].clusters) - 1]_vars

\* Three vectors were merged into one cluster, the second merge joining a
\* cluster of two vectors and a single one with different centroids.
C37_Witness ==
  /\ last.op = "hierarchical"
  /\ last.arg[1] = << <<1, 0>>, <<1, 0>>, <<2, 1>> >>
  /\ last.arg[2] = 7
  /\ Len(last.ret[1].clusters) = 1
  /\ Len(last.ret[1].clusters[1].members) = 3

\* C38: cosine similarity is total: for two vectors of the same length every
\* routine returns a number in [-1, 1], and 0 when a vector is zero.
C38_CosineTotal ==
  [][last'.op = "cosine" =>
       LET a == last'.arg[1]
           b == last'.arg[2]
           r == last'.ret[1]
       IN /\ ~r.nan
          /\ r.dot * r.dot <= r.norms
          /\ (Dot(a, a) = 0 \/ Dot(b, b) = 0) => r.dot = 0]_vars

\* C39: vocabulary consistency: after any sequence of updateVocabulary calls
\* no word's document frequency is above documentCount, and no stored idf,
\* Math.log(documentCount / docFreq), is negative.
C39_VocabularyConsistent ==
  \A w \in Tokens :
    /\ freeEmbedding.vocabulary[w] <= freeEmbedding.documentCount
    /\ freeEmbedding.idf[w][1] = "log" => freeEmbedding.idf[w][2] >= freeEmbedding.idf[w][3]

====
